---------------------------- MODULE Spec2Model ----------------------------
(***************************************************************************)
(* A model of h26x-extractor: the Annex B NALU locator, the RBSP          *)
(* de-emulator and the dispatch loop of H26xParser.parse                   *)
(* (src/h26x_extractor/h26x_parser.py), with the decoder classes of        *)
(* src/h26x_extractor/nalutypes.py it instantiates.                        *)
(*                                                                         *)
(* A stream is a sequence of bytes (0..255), 1-indexed.  As in the code,   *)
(* NALU positions are BIT positions (multiples of 8) counted from 0.       *)
(***************************************************************************)
EXTENDS Integers, Sequences, FiniteSets, TLC

VARIABLES
    stream,              \* self.stream: the whole buffer, a sequence of bytes
    callbacks,           \* self.callbacks: name -> registered function
    pc,                  \* "idle" | "parsing" | "done" | "failed": where parse() is
    nal_unit_positions,  \* self.nal_unit_positions (bit positions, end appended)
    idx,                 \* index of the (current, next) pair the loop is at
    nalu_sps,            \* parse()'s local nalu_sps
    nalu_pps,            \* parse()'s local nalu_pps
    nalu_bytes,          \* parse()'s local nalu_bytes of the last iteration
    nal_unit_type,       \* parse()'s local nal_unit_type of the last iteration
    rbsp_payload,        \* parse()'s local rbsp_payload of the last iteration
    calls,               \* the callback invocations of this parse(), in order
    decodes,             \* the decoder objects this parse() has constructed
    error,               \* the exception that left parse(), "none" if none
    unit,                \* the last decoder call made on its own: class,
                         \* arguments, exception raised, object constructed
    loop                 \* a decoder loop followed round by round: its
                         \* reader, its locals, whether it is still running

vars == <<stream, callbacks, pc, nal_unit_positions, idx, nalu_sps, nalu_pps,
          nalu_bytes, nal_unit_type, rbsp_payload, calls, decodes, error,
          unit, loop>>

\* the variables of a parser object and of its parse()
parser_vars == <<stream, callbacks, pc, nal_unit_positions, idx, nalu_sps,
                 nalu_pps, nalu_bytes, nal_unit_type, rbsp_payload, calls,
                 decodes, error>>

---------------------------------------------------------------------------
(* Bounds of the model *)

\* longest buffer of the locator specification, in bytes
MaxBuf == 7
\* longest NALU payload of the de-emulation specification, in bytes
MaxPayload == 5
\* most NALUs of a stream of the dispatch specification
MaxNalus == 2

---------------------------------------------------------------------------
(* Helpers on sequences *)

Range(s) == {s[k] : k \in DOMAIN s}

Max(a, b) == IF a >= b THEN a ELSE b

\* Python's s[a:b] on bytes, a and b being 0-based byte offsets (a <= b)
Slice(s, a, b) == SubSeq(s, a + 1, b)

\* all sequences over S of length lo..hi
SeqsOf(S, lo, hi) == UNION {[1..n -> S] : n \in lo..hi}

RECURSIVE Insert(_, _)
Insert(x, s) ==
    IF s = <<>> THEN <<x>>
    ELSE IF x <= Head(s) THEN <<x>> \o s
    ELSE <<Head(s)>> \o Insert(x, Tail(s))

\* Python's sorted() on a list of integers
RECURSIVE sorted(_)
sorted(s) == IF s = <<>> THEN <<>> ELSE Insert(Head(s), sorted(Tail(s)))

\* a set of integers as a list (ascending)
RECURSIVE ListOf(_)
ListOf(S) ==
    IF S = {} THEN <<>>
    ELSE LET m == CHOOSE x \in S : \A y \in S : x <= y
         IN  <<m>> \o ListOf(S \ {m})

RECURSIVE Flatten(_)
Flatten(ss) == IF ss = <<>> THEN <<>> ELSE Head(ss) \o Flatten(Tail(ss))

---------------------------------------------------------------------------
(* H26xParser: class constants *)

START_CODE_PREFIX == <<0, 0, 0, 1>>
START_CODE_PREFIX_SHORT == <<0, 0, 1>>
VALID_CALLBACKS == {"sps", "pps", "slice", "aud", "nalu"}

(* nalutypes: NAL unit type codes *)
NAL_UNIT_TYPE_CODED_SLICE_NON_IDR == 1
NAL_UNIT_TYPE_CODED_SLICE_IDR == 5
NAL_UNIT_TYPE_SEI == 6
NAL_UNIT_TYPE_SPS == 7
NAL_UNIT_TYPE_PPS == 8
NAL_UNIT_TYPE_AUD == 9
NAL_UNIT_TYPE_PREFIX == 14

\* Python's None
None == [cls |-> "NoneType"]

---------------------------------------------------------------------------
(* BitStream.findall(pattern, bytealigned=True): the bit positions of every *)
(* byte-aligned occurrence of the pattern, ascending                        *)

findall(s, pat) ==
    ListOf({8 * (i - 1) : i \in {j \in 1..Len(s) :
                 /\ j + Len(pat) - 1 <= Len(s)
                 /\ SubSeq(s, j, j + Len(pat) - 1) = pat}})

(* H26xParser._get_nalu_positions: exit is TRUE when sys.exit(1) is called  *)
(* ("No NALUs found in stream"), else positions is self.nal_unit_positions  *)
(* with end_of_stream appended.                                             *)

extra_nal_unit_pos(long, short) ==
    {Max(short[k] - 8, 0) : k \in DOMAIN short} \ Range(long)

\* a locator that does not stop when it finds no start code
_get_nalu_positions_no_exit(s) ==
    LET long  == findall(s, START_CODE_PREFIX)
        short == findall(s, START_CODE_PREFIX_SHORT)
    IN  [exit |-> FALSE,
         positions |-> Append(IF long = <<>> THEN short ELSE long, 8 * Len(s))]

_get_nalu_positions(s) ==
    LET long  == findall(s, START_CODE_PREFIX)
        short == findall(s, START_CODE_PREFIX_SHORT)
        extra == extra_nal_unit_pos(long, short)
        found == IF long = <<>> THEN short
                 ELSE IF extra # {}
                      THEN sorted(long \o ListOf({e + 8 : e \in extra}))
                      ELSE long
        end_of_stream == 8 * Len(s)
    IN  IF long = <<>> /\ short = <<>>
        THEN [exit |-> TRUE,  positions |-> <<>>]
        ELSE [exit |-> FALSE, positions |-> Append(found, end_of_stream)]

---------------------------------------------------------------------------
(* H26xParser._decode_nalu                                                  *)

\* the de-emulation loop (lines 153-165): n iterations are left, pos is the
\* read position in the payload p (0-based byte offset), out the RBSP so far
RECURSIVE rbsp_loop_gt(_, _, _, _)
RECURSIVE rbsp_loop(_, _, _, _)

\* a loop that asks for more than 24 bits left before it peeks
rbsp_loop_gt(p, n, pos, out) ==
    IF n = 0 THEN out
    ELSE IF Len(p) - pos > 3 /\ Slice(p, pos, pos + 3) = <<0, 0, 3>>
         THEN rbsp_loop_gt(p, n - 1, pos + 3, out \o <<p[pos + 1], p[pos + 2]>>)
         ELSE IF pos = Len(p)
              THEN rbsp_loop_gt(p, n - 1, pos, out)
              ELSE rbsp_loop_gt(p, n - 1, pos + 1, Append(out, p[pos + 1]))

rbsp_loop(p, n, pos, out) ==
    IF n = 0 THEN out
    ELSE IF Len(p) - pos >= 3 /\ Slice(p, pos, pos + 3) = <<0, 0, 3>>
         THEN rbsp_loop(p, n - 1, pos + 3, out \o <<p[pos + 1], p[pos + 2]>>)
         ELSE IF pos = Len(p)
              THEN rbsp_loop(p, n - 1, pos, out)
              ELSE rbsp_loop(p, n - 1, pos + 1, Append(out, p[pos + 1]))

\* a de-emulation that copies the payload as it is
rbsp_of_copy(nal_unit_payload) == nal_unit_payload

rbsp_of(nal_unit_payload) ==
    rbsp_loop(nal_unit_payload, Len(nal_unit_payload), 0, <<>>)

\* the length of the start code _decode_nalu skips (lines 144-147)
\* (nb is the argument nalu_bytes)
start_code_len(nb) ==
    IF Len(nb) >= 4 /\ SubSeq(nb, 1, 4) = START_CODE_PREFIX
    THEN 4 ELSE 3

\* a header read that takes nal_ref_idc and nal_unit_type as one number
header_nal_unit_type_with_ref_idc(hdr) == hdr % 128

\* lines 148-150: forbidden_zero_bit and nal_ref_idc are read and dropped,
\* nal_unit_type is the five bits behind them
header_nal_unit_type(hdr) == hdr % 32

_decode_nalu(nb) ==
    LET sc == start_code_len(nb)
    IN  IF Len(nb) < sc + 1
        THEN \* read("bytes:3") or read(1) past the end: bitstring.ReadError
             [err |-> "ReadError", nal_unit_type |-> -1, nal_ref_idc |-> -1,
              rbsp_payload |-> <<>>]
        ELSE LET hdr == nb[sc + 1]
             IN  [err |-> "none",
                  nal_unit_type |-> header_nal_unit_type(hdr),
                  nal_ref_idc |-> (hdr \div 32) % 4,
                  rbsp_payload |->
                      rbsp_of(SubSeq(nb, sc + 2, Len(nb)))]

---------------------------------------------------------------------------
(* The bit reader the decoders use (bitstring's BitStream.read): a read     *)
(* returns [err, val, pos], err = "ReadError" when it needs more bits than  *)
(* remain.                                                                  *)

\* bit k (0-based, MSB first) of the byte sequence b
Bit(b, k) == (b[(k \div 8) + 1] \div (2 ^ (7 - (k % 8)))) % 2

RECURSIVE UintAt(_, _, _)
UintAt(b, pos, n) ==
    IF n = 0 THEN 0 ELSE 2 * UintAt(b, pos, n - 1) + Bit(b, pos + n - 1)

\* read("uint:n")
read_uint(b, pos, n) ==
    IF pos + n > 8 * Len(b)
    THEN [err |-> "ReadError", val |-> 0, pos |-> pos]
    ELSE [err |-> "none", val |-> UintAt(b, pos, n), pos |-> pos + n]

RECURSIVE Pow2(_)
Pow2(n) == IF n = 0 THEN 1 ELSE 2 * Pow2(n - 1)

\* math.ceil(math.log2(n)) for n >= 1
RECURSIVE CeilLog2(_)
CeilLog2(n) == IF n <= 1 THEN 0 ELSE 1 + CeilLog2((n + 1) \div 2)

\* a BitStream that is being read: its bytes, its cursor, the value of the
\* last read and the exception raised so far; once an exception is raised
\* no later statement has an effect
\* (log lists the reads a decoder names: field, value, bits consumed)
Reader(b) == [b |-> b, pos |-> 0, val |-> 0, err |-> "none", log |-> <<>>]

Raise(r, e) == [r EXCEPT !.err = e, !.val = 0]

\* the reader r after the read x: its cursor and value, or its exception
after_read(r, x) ==
    IF x.err # "none" THEN Raise(r, x.err)
    ELSE [r EXCEPT !.pos = x.pos, !.val = x.val]

\* self.s.read("uint:n"); a zero-length read cannot be interpreted
u(r, n) ==
    IF r.err # "none" THEN r
    ELSE IF n = 0 THEN Raise(r, "InterpretError")
    ELSE after_read(r, read_uint(r.b, r.pos, n))

\* the position of the first 1 bit from pos on, -1 if there is none
RECURSIVE FirstOne(_, _)
FirstOne(b, pos) ==
    IF pos >= 8 * Len(b) THEN -1
    ELSE IF Bit(b, pos) = 1 THEN pos
         ELSE FirstOne(b, pos + 1)

\* the number of 0 bits from pos up to the next 1 bit, -1 if there is none
zeros_before(one, pos) == IF one = -1 THEN -1 ELSE one - pos

LeadingZeros(b, pos) == zeros_before(FirstOne(b, pos), pos)

\* read("ue") at position pos, where lz zero bits lead the code word
read_ue(b, pos, lz) ==
    IF lz = -1 \/ (lz > 0 /\ pos + 2 * lz + 1 > 8 * Len(b))
    THEN [err |-> "ReadError", val |-> 0, pos |-> pos]
    ELSE [err |-> "none", val |-> Pow2(lz) - 1 + UintAt(b, pos + lz + 1, lz),
          pos |-> pos + 2 * lz + 1]

\* self.s.read("ue"): unsigned Exp-Golomb
ue(r) ==
    IF r.err # "none" THEN r
    ELSE after_read(r, read_ue(r.b, r.pos, LeadingZeros(r.b, r.pos)))

\* self.s.read("se"): signed Exp-Golomb
signed(c) ==
    IF c.err # "none" THEN c
    ELSE [c EXCEPT !.val = IF c.val % 2 = 0 THEN 0 - (c.val \div 2)
                                            ELSE (c.val + 1) \div 2]

se(r) == signed(ue(r))

\* self.<name> = <read>: the read `next` made from `prev`, entered in the log
Named(prev, next, name) ==
    IF next.err # "none" THEN next
    ELSE [next EXCEPT !.log = Append(@, [name |-> name, val |-> next.val,
                                         bits |-> next.pos - prev.pos])]

\* (the reader is one stream object: x is its value, evaluated once)
fu(r, n, name) == CHOOSE y \in {Named(x, u(x, n), name) : x \in {r}} : TRUE
fue(r, name) == CHOOSE y \in {Named(x, ue(x), name) : x \in {r}} : TRUE
fse(r, name) == CHOOSE y \in {Named(x, se(x), name) : x \in {r}} : TRUE

\* obj.<name> of an argument: AttributeError when the object has no such
\* attribute (None has none)
Need(r, obj, names) ==
    IF r.err = "none" /\ \E n \in names : n \notin DOMAIN obj
    THEN Raise(r, "AttributeError")
    ELSE r

\* getattr(obj, name, default)
getattr(obj, name, default) ==
    IF name \in DOMAIN obj THEN obj[name] ELSE default

\* n times self.s.read("ue"), appended to a list
RECURSIVE read_ue_list(_, _, _)
read_ue_list(r, n, acc) ==
    IF n <= 0 \/ r.err # "none" THEN [r |-> r, vals |-> acc]
    ELSE LET x == ue(r)
         IN  read_ue_list(x, n - 1, Append(acc, x.val))

\* n times self.s.read("uint:w"), appended to a list
RECURSIVE read_uint_list(_, _, _, _)
read_uint_list(r, n, w, acc) ==
    IF n <= 0 \/ r.err # "none" THEN [r |-> r, vals |-> acc]
    ELSE LET x == u(r, w)
         IN  read_uint_list(x, n - 1, w, Append(acc, x.val))

\* n times two ue reads, appended to two lists
RECURSIVE read_pairs(_, _, _, _)
read_pairs(r, n, first, second) ==
    IF n <= 0 \/ r.err # "none" THEN [r |-> r, first |-> first, second |-> second]
    ELSE LET x == ue(r)
             y == ue(x)
         IN  read_pairs(y, n - 1, Append(first, x.val), Append(second, y.val))

---------------------------------------------------------------------------
(* nalutypes: the decoder classes and the positional parameters (after      *)
(* self) their __init__ accepts, as <<fewest, most>>                        *)

NalutypesClasses ==
    [NALU       |-> <<1, 2>>,
     AUD        |-> <<1, 1>>,
     CodedSlice |-> <<4, 4>>,
     SPS        |-> <<1, 1>>,
     PPS        |-> <<1, 1>>,
     Prefix     |-> <<1, 1>>]

\* a round that appends next_scale whatever it is
scaling_list_entry_append_next(d, i, last_scale, next_scale, scaling_list) ==
    CHOOSE y \in
        {IF d.err # "none"
         THEN [r |-> d, last_scale |-> last_scale, next_scale |-> next_scale,
               scaling_list |-> scaling_list,
               use_default_scaling_matrix_flag |-> 0, brk |-> TRUE]
         ELSE [r |-> d, last_scale |-> next, next_scale |-> next,
               scaling_list |-> IF i = 0 /\ next = 0 THEN scaling_list
                                ELSE Append(scaling_list, next),
               use_default_scaling_matrix_flag |->
                   IF i = 0 /\ next = 0 THEN 1 ELSE 0,
               brk |-> i = 0 /\ next = 0] :
         next \in {IF next_scale # 0 THEN (last_scale + d.val + 256) % 256
                   ELSE next_scale}} : TRUE

\* one round of the for loop of parse_scaling_list, at index i: the reader
\* and the locals it leaves and whether it leaves the loop (by break or by an
\* exception)
scaling_list_entry(d, i, last_scale, next_scale, scaling_list) ==
    LET next == IF next_scale # 0
                THEN (last_scale + d.val + 256) % 256
                ELSE next_scale
        stay == [r |-> d, last_scale |-> last_scale, next_scale |-> next_scale,
                 scaling_list |-> scaling_list,
                 use_default_scaling_matrix_flag |-> 0, brk |-> TRUE]
    IN  IF d.err # "none" THEN stay
        ELSE IF i = 0 /\ next = 0
        THEN [stay EXCEPT !.next_scale = next,
                          !.use_default_scaling_matrix_flag = 1]
        ELSE IF next = 0
        THEN [stay EXCEPT !.next_scale = next, !.brk = FALSE,
                          !.scaling_list = Append(scaling_list, last_scale)]
        ELSE [stay EXCEPT !.next_scale = next, !.last_scale = next,
                          !.brk = FALSE,
                          !.scaling_list = Append(scaling_list, next)]

\* (d is the reader behind delta_scale = bitreader.read("se"), which is
\* read only if next_scale != 0)
scaling_list_iter(r, i, last_scale, next_scale, scaling_list) ==
    scaling_list_entry(IF next_scale # 0 THEN se(r) ELSE r,
                       i, last_scale, next_scale, scaling_list)

\* the for loop of parse_scaling_list from index i on
RECURSIVE scaling_list_loop(_, _, _, _, _, _)
scaling_list_loop(r, sizeOfScalingList, i, last_scale, next_scale, scaling_list) ==
    IF i >= sizeOfScalingList \/ r.err # "none"
    THEN [r |-> r, scaling_list |-> scaling_list,
          use_default_scaling_matrix_flag |-> 0]
    ELSE CHOOSE y \in
             {IF x.brk
              THEN [r |-> x.r, scaling_list |-> x.scaling_list,
                    use_default_scaling_matrix_flag |->
                        x.use_default_scaling_matrix_flag]
              ELSE scaling_list_loop(x.r, sizeOfScalingList, i + 1,
                                     x.last_scale, x.next_scale, x.scaling_list) :
              x \in {scaling_list_iter(r, i, last_scale, next_scale,
                                       scaling_list)}} : TRUE

\* parse_scaling_list(bitreader, sizeOfScalingList)
parse_scaling_list(r, sizeOfScalingList) ==
    scaling_list_loop(r, sizeOfScalingList, 0, 8, 8, <<>>)

\* a loop that reads one (top_left, bottom_right) pair per slice group
pairs_range_per_group(num_slice_groups_minus1) == num_slice_groups_minus1 + 1

\* the rounds of for i_group in range(self.num_slice_groups_minus1)
pairs_range(num_slice_groups_minus1) == num_slice_groups_minus1

\* the slice group fields of a PPS (lines 689-723), as the attributes they
\* set and the reader they leave
pps_slice_groups(r, num_slice_groups_minus1) ==
    IF num_slice_groups_minus1 > 0
    THEN LET t == ue(r)
             slice_group_map_type == t.val
             base == [slice_group_map_type |-> slice_group_map_type]
         IN  IF slice_group_map_type = 0
             THEN LET l == read_ue_list(t, num_slice_groups_minus1 + 1, <<>>)
                  IN  [r |-> l.r,
                       set |-> base @@ [run_length_minus1 |-> l.vals]]
             ELSE IF slice_group_map_type = 2
             THEN LET l == read_pairs(t, pairs_range(num_slice_groups_minus1),
                                      <<>>, <<>>)
                  IN  [r |-> l.r,
                       set |-> base @@ [top_left |-> l.first,
                                        bottom_right |-> l.second]]
             ELSE IF slice_group_map_type \in {3, 4, 5}
             THEN LET f == u(t, 1)
                      c == ue(f)
                  IN  [r |-> c,
                       set |-> base @@
                               [slice_group_change_direction_flag |-> f.val,
                                slice_group_change_rate_minus1 |-> c.val]]
             ELSE IF slice_group_map_type = 6
             THEN LET n == ue(t)
                      bits_for_slice_group_id ==
                          CeilLog2(num_slice_groups_minus1 + 1)
                      l == read_uint_list(n, n.val + 1,
                                          bits_for_slice_group_id, <<>>)
                  IN  [r |-> l.r,
                       set |-> base @@
                               [pic_size_in_map_units_minus1 |-> n.val,
                                slice_group_id |-> l.vals]]
             ELSE [r |-> t, set |-> base]
    ELSE [r |-> r,
          set |-> [slice_group_map_type |-> 0, run_length_minus1 |-> <<>>,
                   top_left |-> <<>>, bottom_right |-> <<>>,
                   slice_group_id |-> <<>>]]

\* the scaling lists of a PPS from list i_list on (lines 756-761)
RECURSIVE pps_scaling_lists(_, _, _, _)
pps_scaling_lists(r, num_scaling_lists, i_list, present_flags) ==
    IF i_list >= num_scaling_lists \/ r.err # "none"
    THEN [r |-> r, pic_scaling_list_present_flag |-> present_flags]
    ELSE CHOOSE y \in
             {pps_scaling_lists(
                  IF p.err = "none" /\ p.val # 0
                  THEN parse_scaling_list(p, IF i_list < 6 THEN 16 ELSE 64).r
                  ELSE p,
                  num_scaling_lists, i_list + 1, Append(present_flags, p.val)) :
              p \in {u(r, 1)}} : TRUE

\* lines 745-765, behind the read l of the scaling lists of the flags t and m
pps_extension_tail(t, m, l, c) ==
    [r |-> c,
     set |-> [none |-> {},
              transform_8x8_mode_flag |-> t.val,
              pic_scaling_matrix_present_flag |-> m.val,
              pic_scaling_list_present_flag |-> l.pic_scaling_list_present_flag,
              second_chroma_qp_index_offset |-> c.val]]

\* lines 745-761, behind the reads t of transform_8x8_mode_flag and m of
\* pic_scaling_matrix_present_flag
pps_extension_lists(t, m) ==
    CHOOSE y \in {pps_extension_tail(t, m, l, se(l.r)) :
                    l \in {IF m.val # 0
                           THEN pps_scaling_lists(
                                    m, 6 + (IF t.val = 1 THEN 2 ELSE 0), 0, <<>>)
                           ELSE [r |-> m,
                                 pic_scaling_list_present_flag |-> <<>>]}} : TRUE

\* lines 741-765, behind the read t of transform_8x8_mode_flag
pps_extension_fields(t) == pps_extension_lists(t, u(t, 1))

\* the optional fields of a PPS (lines 739-765)
pps_extension(r) ==
    IF r.err = "none" /\ r.pos <= 8 * Len(r.b) - 8
    THEN pps_extension_fields(u(r, 1))
    ELSE [r |-> r,
          set |-> [none |-> {"transform_8x8_mode_flag",
                             "pic_scaling_matrix_present_flag",
                             "second_chroma_qp_index_offset"},
                   transform_8x8_mode_flag |-> None,
                   pic_scaling_matrix_present_flag |-> None,
                   pic_scaling_list_present_flag |-> <<>>,
                   second_chroma_qp_index_offset |-> None]]

\* PPS.__init__(rbsp_bytes); `none` is the set of attributes that are None
PPS(rbsp_bytes) ==
    LET r1 == ue(Reader(rbsp_bytes))
        r2 == ue(r1)
        r3 == u(r2, 1)
        r4 == u(r3, 1)
        r5 == ue(r4)
        sg == pps_slice_groups(r5, r5.val)
        r6 == ue(sg.r)
        r7 == ue(r6)
        r8 == u(r7, 1)
        r9 == u(r8, 2)
        r10 == se(r9)
        r11 == se(r10)
        r12 == se(r11)
        r13 == u(r12, 1)
        r14 == u(r13, 1)
        r15 == u(r14, 1)
        ext == pps_extension(r15)
    IN  [err |-> ext.r.err,
         obj |-> IF ext.r.err # "none" THEN None
                 ELSE [cls |-> "PPS",
                       pic_parameter_set_id |-> r1.val,
                       seq_parameter_set_id |-> r2.val,
                       entropy_coding_mode_flag |-> r3.val,
                       pic_order_present_flag |-> r4.val,
                       num_slice_groups_minus1 |-> r5.val,
                       num_ref_idx_l0_active_minus1 |-> r6.val,
                       num_ref_idx_l1_active_minus1 |-> r7.val,
                       weighted_pred_flag |-> r8.val,
                       weighted_bipred_idc |-> r9.val,
                       pic_init_qp_minus26 |-> r10.val,
                       pic_init_qs_minus26 |-> r11.val,
                       chroma_qp_index_offset |-> r12.val,
                       deblocking_filter_control_present_flag |-> r13.val,
                       constrained_intra_pred_flag |-> r14.val,
                       redundant_pic_cnt_present_flag |-> r15.val,
                       base_end |-> r15.pos,
                       pos |-> ext.r.pos]
                      @@ sg.set @@ ext.set]

\* slice types
P_SLICE == 0
B_SLICE == 1
I_SLICE == 2
SP_SLICE == 3
SI_SLICE == 4

get_slice_type_str(slice_type_mod_5) ==
    CASE slice_type_mod_5 = 0 -> "P"
      [] slice_type_mod_5 = 1 -> "B"
      [] slice_type_mod_5 = 2 -> "I"
      [] slice_type_mod_5 = 3 -> "SP"
      [] slice_type_mod_5 = 4 -> "SI"

\* a round that reads a value behind every modification_of_pic_nums_idc
rplm_iter_no_break(r, lx) ==
    CHOOSE y \in {[r |-> v, brk |-> v.err # "none"] :
                    v \in {fue(fue(r, "modification_of_pic_nums_idc_" \o lx),
                               "modification_value_" \o lx)}} : TRUE

\* one round of the for loop of _parse_ref_pic_list_modification for list
\* lx: the reader it leaves and whether it leaves the loop (by break or by
\* an exception)
rplm_iter(r, lx) ==
    LET i == fue(r, "modification_of_pic_nums_idc_" \o lx)
        v == fue(i, "modification_value_" \o lx)
    IN  IF i.err # "none" \/ i.val = 3 THEN [r |-> i, brk |-> TRUE]
        ELSE [r |-> v, brk |-> v.err # "none"]

\* the for loop of _parse_ref_pic_list_modification for list lx, n rounds left
RECURSIVE rplm_loop(_, _, _)
rplm_loop(r, n, lx) ==
    IF n <= 0 \/ r.err # "none" THEN r
    ELSE CHOOSE y \in {IF i.brk THEN i.r ELSE rplm_loop(i.r, n - 1, lx) :
                        i \in {rplm_iter(r, lx)}} : TRUE

\* CodedSlice._parse_ref_pic_list_modification; l0 and l1 are
\* self.num_ref_idx_l0_active_minus1 and self.num_ref_idx_l1_active_minus1
_parse_ref_pic_list_modification(r, slice_type_mod_5, l0, l1) ==
    LET f0 == fu(r, 1, "ref_pic_list_modification_flag_l0")
        a == IF f0.val # 0 THEN rplm_loop(f0, l0 + 1, "l0") ELSE f0
        f1 == fu(a, 1, "ref_pic_list_modification_flag_l1")
        b == IF f1.val # 0 THEN rplm_loop(f1, l1 + 1, "l1") ELSE f1
    IN  IF slice_type_mod_5 = B_SLICE THEN b ELSE a

\* one of the two for loops of _parse_pred_weight_table, n rounds left
RECURSIVE weights_loop(_, _, _, _)
weights_loop(r, n, chroma, lx) ==
    IF n <= 0 \/ r.err # "none" THEN r
    ELSE LET lf == fu(r, 1, "luma_weight_flag_" \o lx)
             lw == IF lf.val # 0
                   THEN fse(fse(lf, "luma_weight_" \o lx), "luma_offset_" \o lx)
                   ELSE lf
             cf == IF chroma THEN fu(lw, 1, "chroma_weight_flag_" \o lx) ELSE lw
             cw == IF chroma /\ cf.val # 0
                   THEN fse(fse(fse(fse(cf, "chroma_weight_cb_" \o lx),
                                    "chroma_offset_cb_" \o lx),
                                "chroma_weight_cr_" \o lx),
                            "chroma_offset_cr_" \o lx)
                   ELSE cf
         IN  weights_loop(cw, n - 1, chroma, lx)

\* CodedSlice._parse_pred_weight_table(sps, pps)
_parse_pred_weight_table(r, sps, l0, l1, slice_type) ==
    LET d == fue(r, "luma_log2_weight_denom")
        n == Need(d, sps, {"chroma_format_idc"})
        chroma == getattr(sps, "chroma_format_idc", 0) # 0
        c == IF chroma THEN fue(n, "chroma_log2_weight_denom") ELSE n
        w0 == weights_loop(c, l0 + 1, chroma, "l0")
    IN  IF slice_type % 5 = 1 THEN weights_loop(w0, l1 + 1, chroma, "l1")
        ELSE w0

\* a round of the while loop that reads nothing and goes on
mmco_iter_stuck(r) == [r |-> r, brk |-> FALSE]

\* a round that reads one operand for every operation but 0
mmco_iter_one_operand(r) ==
    CHOOSE y \in {IF o.err # "none" \/ o.val = 0 THEN [r |-> o, brk |-> TRUE]
                  ELSE [r |-> v, brk |-> v.err # "none"] :
                    o \in {fue(r, "memory_management_control_operation")},
                    v \in {fue(fue(r, "memory_management_control_operation"),
                               "difference_of_pic_nums_minus1")}} : TRUE

\* one round of the while loop of _parse_dec_ref_pic_marking: the reader it
\* leaves and whether it leaves the loop (by break or by an exception)
mmco_iter(r) ==
    LET o == fue(r, "memory_management_control_operation")
        a == IF o.val \in {1, 3}
             THEN fue(o, "difference_of_pic_nums_minus1") ELSE o
        b == IF o.val = 2 THEN fue(a, "long_term_pic_num") ELSE a
        c == IF o.val \in {3, 6} THEN fue(b, "long_term_frame_idx") ELSE b
        d == IF o.val = 4 THEN fue(c, "max_long_term_frame_idx_plus1") ELSE c
    IN  IF o.err # "none" \/ o.val = 0 THEN [r |-> o, brk |-> TRUE]
        ELSE [r |-> d, brk |-> d.err # "none"]

\* the condition of the while loop: self.s.pos < len(self.s)
mmco_cond(r) == r.pos < 8 * Len(r.b)

\* the while loop of _parse_dec_ref_pic_marking
RECURSIVE mmco_loop(_)
mmco_loop(r) ==
    IF r.err # "none" \/ ~mmco_cond(r) THEN r
    ELSE CHOOSE y \in {IF i.brk THEN i.r ELSE mmco_loop(i.r) :
                        i \in {mmco_iter(r)}} : TRUE

\* CodedSlice._parse_dec_ref_pic_marking
_parse_dec_ref_pic_marking(r) ==
    LET f == fu(r, 1, "adaptive_ref_pic_marking_mode_flag")
    IN  IF f.val # 0 THEN mmco_loop(f) ELSE f

\* whether the decoder assigned a read to self.<name>, and the value it read
Logged(r, name) == \E i \in DOMAIN r.log : r.log[i].name = name

Value(r, name) ==
    r.log[CHOOSE i \in DOMAIN r.log :
              /\ r.log[i].name = name
              /\ \A j \in DOMAIN r.log : r.log[j].name = name => j <= i].val

\* a decoder that reads idr_pic_id in every slice
slice_idr_pic_id_always(r, is_idr) == fue(r, "idr_pic_id")

\* step 5 of CodedSlice.__init__: idr_pic_id, only if IDR slice
slice_idr_pic_id(r, is_idr) ==
    IF is_idr THEN fue(r, "idr_pic_id") ELSE r

\* step 6 of CodedSlice.__init__: pic_order_cnt
slice_pic_order_cnt(r, sps, pps) ==
    LET both_fields == /\ Logged(r, "field_pic_flag")
                       /\ Value(r, "field_pic_flag") # 0
                       /\ Logged(r, "bottom_field_flag")
                       /\ Value(r, "bottom_field_flag") # 0
        t == Need(r, sps, {"pic_order_cnt_type"})
        pic_order_cnt_type == getattr(sps, "pic_order_cnt_type", 0)
    IN  IF t.err # "none" THEN t
        ELSE IF pic_order_cnt_type = 0
        THEN LET n == Need(t, sps, {"log2_max_pic_order_cnt_lsb_minus4"})
                 poc_lsb_bits ==
                     getattr(sps, "log2_max_pic_order_cnt_lsb_minus4", 0) + 4
                 l == fu(n, poc_lsb_bits, "pic_order_cnt_lsb")
                 q == Need(l, pps, {"pic_order_present_flag"})
             IN  IF q.err = "none"
                    /\ getattr(pps, "pic_order_present_flag", 0) # 0
                    /\ ~both_fields
                 THEN fse(q, "delta_pic_order_cnt_bottom")
                 ELSE q
        ELSE IF /\ pic_order_cnt_type = 1
                /\ getattr(sps, "delta_pic_order_always_zero_flag", 0) = 0
        THEN LET d == fse(t, "delta_pic_order_cnt_0")
                 q == Need(d, pps, {"pic_order_present_flag"})
             IN  IF q.err = "none"
                    /\ getattr(pps, "pic_order_present_flag", 0) # 0
                    /\ ~both_fields
                 THEN fse(q, "delta_pic_order_cnt_1")
                 ELSE q
        ELSE t

\* self.num_ref_idx_l0_active_minus1 and self.num_ref_idx_l1_active_minus1
\* behind step 9: the value the slice read, else the one of the PPS
num_ref_idx_active_minus1(r, pps, lx) ==
    IF Logged(r, "num_ref_idx_" \o lx \o "_active_minus1")
    THEN Value(r, "num_ref_idx_" \o lx \o "_active_minus1")
    ELSE getattr(pps, "num_ref_idx_" \o lx \o "_active_minus1", 0)

\* slice_type_mod_5, once slice_type is read
mod_5(r) == IF Logged(r, "slice_type") THEN Value(r, "slice_type") % 5 ELSE -1

\* step 1 of CodedSlice.__init__
slice_first_fields(r) ==
    fue(fue(fue(r, "first_mb_in_slice"), "slice_type"), "pic_parameter_set_id")

\* step 2 of CodedSlice.__init__: colour_plane_id
slice_colour_plane_id(r, sps) ==
    IF getattr(sps, "separate_colour_plane_flag", 0) = 1
    THEN fu(r, 2, "colour_plane_id") ELSE r

\* step 3 of CodedSlice.__init__: frame_num
slice_frame_num(r, sps) ==
    fu(Need(r, sps, {"log2_max_frame_num_minus4"}),
       getattr(sps, "log2_max_frame_num_minus4", 0) + 4, "frame_num")

\* step 4 of CodedSlice.__init__, behind the read f of field_pic_flag
slice_bottom_field_flag(f) ==
    IF f.val # 0 THEN fu(f, 1, "bottom_field_flag") ELSE f

\* step 4 of CodedSlice.__init__: field_pic_flag / bottom_field_flag
slice_field_pic_flag(r, sps) ==
    IF getattr(sps, "frame_mbs_only_flag", 1) = 0
    THEN slice_bottom_field_flag(fu(r, 1, "field_pic_flag"))
    ELSE r

\* step 7 of CodedSlice.__init__: redundant_pic_cnt
slice_redundant_pic_cnt(r, pps) ==
    IF getattr(pps, "redundant_pic_cnt_present_flag", 0) = 1
    THEN fue(r, "redundant_pic_cnt") ELSE r

\* step 8 of CodedSlice.__init__: direct_spatial_mv_pred_flag
slice_direct_spatial_mv_pred_flag(r) ==
    IF mod_5(r) = B_SLICE THEN fu(r, 1, "direct_spatial_mv_pred_flag") ELSE r

\* step 9 of CodedSlice.__init__, behind the read f of
\* num_ref_idx_active_override_flag
slice_num_ref_idx_override(f) ==
    IF f.val = 0 THEN f
    ELSE IF mod_5(f) = B_SLICE
         THEN fue(fue(f, "num_ref_idx_l0_active_minus1"),
                  "num_ref_idx_l1_active_minus1")
         ELSE fue(f, "num_ref_idx_l0_active_minus1")

\* step 9 of CodedSlice.__init__: the reference index counts
slice_num_ref_idx(r, pps) ==
    IF mod_5(r) \in {P_SLICE, SP_SLICE, B_SLICE}
    THEN slice_num_ref_idx_override(
             fu(Need(r, pps, {"num_ref_idx_l0_active_minus1",
                              "num_ref_idx_l1_active_minus1"}),
                1, "num_ref_idx_active_override_flag"))
    ELSE Need(r, pps, {"num_ref_idx_l0_active_minus1",
                       "num_ref_idx_l1_active_minus1"})

\* step 10 of CodedSlice.__init__: ref_pic_list_modification
slice_ref_pic_list_modification(r, pps) ==
    IF r.err = "none" /\ mod_5(r) \notin {I_SLICE, SI_SLICE}
    THEN _parse_ref_pic_list_modification(
             r, mod_5(r), num_ref_idx_active_minus1(r, pps, "l0"),
             num_ref_idx_active_minus1(r, pps, "l1"))
    ELSE r

\* step 11 of CodedSlice.__init__: pred_weight_table
slice_pred_weight_table(r, sps, pps) ==
    IF r.err # "none" THEN r
    ELSE IF mod_5(r) \in {P_SLICE, SP_SLICE}
    THEN IF "weighted_pred_flag" \notin DOMAIN pps
         THEN Raise(r, "AttributeError")
         ELSE IF pps.weighted_pred_flag # 0
         THEN _parse_pred_weight_table(
                  r, sps, num_ref_idx_active_minus1(r, pps, "l0"),
                  num_ref_idx_active_minus1(r, pps, "l1"),
                  Value(r, "slice_type"))
         ELSE r
    ELSE IF mod_5(r) = B_SLICE
    THEN IF "weighted_bipred_idc" \notin DOMAIN pps
         THEN Raise(r, "AttributeError")
         ELSE IF pps.weighted_bipred_idc = 1
         THEN _parse_pred_weight_table(
                  r, sps, num_ref_idx_active_minus1(r, pps, "l0"),
                  num_ref_idx_active_minus1(r, pps, "l1"),
                  Value(r, "slice_type"))
         ELSE r
    ELSE r

\* step 12 of CodedSlice.__init__: dec_ref_pic_marking
slice_dec_ref_pic_marking(r, nut) ==
    IF nut = 5
    THEN fu(fu(r, 1, "no_output_of_prior_pics_flag"),
            1, "long_term_reference_flag")
    ELSE _parse_dec_ref_pic_marking(r)

\* step 13 of CodedSlice.__init__, behind the look at the PPS: cabac_init_idc
slice_cabac_init_idc_read(e, pps) ==
    IF /\ getattr(pps, "entropy_coding_mode_flag", 0) = 1
       /\ mod_5(e) \notin {I_SLICE, SI_SLICE}
    THEN fue(e, "cabac_init_idc") ELSE e

\* step 13 of CodedSlice.__init__: cabac_init_idc
slice_cabac_init_idc(r, pps) ==
    slice_cabac_init_idc_read(Need(r, pps, {"entropy_coding_mode_flag"}), pps)

\* step 14 of CodedSlice.__init__: slice_qp_delta
slice_qp_delta(r) == fse(r, "slice_qp_delta")

\* step 15 of CodedSlice.__init__: sp_for_switch_flag and slice_qs_delta
slice_qs_delta(r) ==
    IF mod_5(r) = SP_SLICE
    THEN fse(fu(r, 1, "sp_for_switch_flag"), "slice_qs_delta")
    ELSE IF mod_5(r) = SI_SLICE THEN fse(r, "slice_qs_delta")
    ELSE r

\* step 16 of CodedSlice.__init__: deblocking_filter_control
slice_deblocking(r, pps) ==
    LET n == Need(r, pps, {"deblocking_filter_control_present_flag"})
        d == fue(n, "disable_deblocking_filter_idc")
    IN  IF getattr(pps, "deblocking_filter_control_present_flag", 0) # 0
        THEN IF d.val # 1
             THEN fse(fse(d, "slice_alpha_c0_offset_div2"),
                      "slice_beta_offset_div2")
             ELSE d
        ELSE n

\* step 17 of CodedSlice.__init__: slice_group_change_cycle
slice_group_change(r, sps, pps) ==
    LET n == Need(r, pps, {"num_slice_groups_minus1"})
        m == IF getattr(pps, "num_slice_groups_minus1", 0) > 0
             THEN Need(n, pps, {"slice_group_map_type"}) ELSE n
        s1 == Need(m, sps, {"pic_width_in_mbs_minus_1",
                            "pic_height_in_map_units_minus_1",
                            "frame_mbs_only_flag"})
        s2 == Need(s1, pps, {"slice_group_change_rate_minus1"})
        units == (getattr(sps, "pic_width_in_mbs_minus_1", 0) + 1)
                 * (getattr(sps, "pic_height_in_map_units_minus_1", 0) + 1)
        pic_size_in_map_units ==
            IF getattr(sps, "frame_mbs_only_flag", 0) = 0 THEN 2 * units
            ELSE units
        max_value == pic_size_in_map_units
                     \div (getattr(pps, "slice_group_change_rate_minus1", 0) + 1)
        bits_for_slice_group_change_cycle == CeilLog2(max_value + 1)
    IN  IF /\ m.err = "none"
           /\ getattr(pps, "num_slice_groups_minus1", 0) > 0
           /\ getattr(pps, "slice_group_map_type", 0) \in {3, 4, 5}
        THEN fu(s2, bits_for_slice_group_change_cycle,
                "slice_group_change_cycle")
        ELSE m

\* the attributes CodedSlice.__init__ sets to None before it may read them
SliceOptional ==
    {"colour_plane_id", "field_pic_flag", "bottom_field_flag", "idr_pic_id",
     "pic_order_cnt_lsb", "delta_pic_order_cnt_bottom", "redundant_pic_cnt",
     "direct_spatial_mv_pred_flag", "num_ref_idx_active_override_flag",
     "cabac_init_idc", "slice_qs_delta"}

\* steps 1 to 5 of CodedSlice.__init__
slice_steps_1_5(r, sps, nut) ==
    slice_idr_pic_id(
        slice_field_pic_flag(
            slice_frame_num(
                slice_colour_plane_id(slice_first_fields(r), sps), sps), sps),
        nut = 5)

\* steps 6 to 11 of CodedSlice.__init__
slice_steps_6_11(r, sps, pps) ==
    slice_pred_weight_table(
        slice_ref_pic_list_modification(
            slice_num_ref_idx(
                slice_direct_spatial_mv_pred_flag(
                    slice_redundant_pic_cnt(
                        slice_pic_order_cnt(r, sps, pps), pps)), pps), pps),
        sps, pps)

\* steps 12 to 17 of CodedSlice.__init__
slice_steps_12_17(r, sps, pps, nut) ==
    slice_group_change(
        slice_deblocking(
            slice_qs_delta(
                slice_qp_delta(
                    slice_cabac_init_idc(
                        slice_dec_ref_pic_marking(r, nut), pps))), pps),
        sps, pps)

\* the object CodedSlice.__init__ leaves when its last read is r:
\* start_bits is the cursor of the fresh stream, end_bits the one of r
slice_object(r, rbsp_bytes, pps, nut) ==
    [err |-> r.err,
     obj |-> IF r.err # "none" THEN None
             ELSE [cls |-> "CodedSlice",
                   is_idr |-> nut = 5,
                   first_mb_in_slice |-> Value(r, "first_mb_in_slice"),
                   slice_type |-> Value(r, "slice_type"),
                   slice_type_str |-> get_slice_type_str(mod_5(r)),
                   pic_parameter_set_id |-> Value(r, "pic_parameter_set_id"),
                   frame_num |-> Value(r, "frame_num"),
                   num_ref_idx_l0_active_minus1 |->
                       num_ref_idx_active_minus1(r, pps, "l0"),
                   num_ref_idx_l1_active_minus1 |->
                       num_ref_idx_active_minus1(r, pps, "l1"),
                   slice_qp_delta |-> Value(r, "slice_qp_delta"),
                   none |-> {a \in SliceOptional : ~Logged(r, a)},
                   log |-> r.log,
                   len |-> 8 * Len(rbsp_bytes),
                   _slice_header_size_bits |-> r.pos - Reader(rbsp_bytes).pos]]

\* CodedSlice.__init__(rbsp_bytes, sps, pps, nal_unit_type)
CodedSlice(rbsp_bytes, sps, pps, nut) ==
    slice_object(
        slice_steps_12_17(
            slice_steps_6_11(slice_steps_1_5(Reader(rbsp_bytes), sps, nut),
                             sps, pps),
            sps, pps, nut),
        rbsp_bytes, pps, nut)

\* CodedSlice.get_slice_header_size
get_slice_header_size(slice) == (slice._slice_header_size_bits + 7) \div 8

\* a payload size rounded up from bits, as the docstring has it
get_slice_payload_size_rounded_up(slice) ==
    (slice.len - slice._slice_header_size_bits + 7) \div 8

\* CodedSlice.get_slice_payload_size
get_slice_payload_size(slice) ==
    (slice.len - slice._slice_header_size_bits) \div 8

\* AUD.__init__(rbsp_bytes)
AUD(rbsp_bytes) ==
    LET r == read_uint(rbsp_bytes, 0, 3)
    IN  [err |-> r.err,
         obj |-> [cls |-> "AUD", primary_pic_type |-> r.val, pos |-> r.pos]]

\* a value appended to the list self.<name> behind the reads from prev to
\* next, kept with the reads in the order of the statements
noted(prev, next, name, v) ==
    IF next.err # "none" THEN next
    ELSE [next EXCEPT !.log = Append(@, [name |-> name, val |-> v,
                                         bits |-> next.pos - prev.pos])]

\* the list self.<name> that the appends of the log make
RECURSIVE Appended(_, _)
Appended(log, name) ==
    IF log = <<>> THEN <<>>
    ELSE (IF Head(log).name = name THEN <<Head(log).val>> ELSE <<>>)
         \o Appended(Tail(log), name)

\* the last n elements of a list
LastOf(list, n) ==
    IF n >= Len(list) THEN list ELSE SubSeq(list, Len(list) - n + 1, Len(list))

\* an allow-list without profile_idc 44
in_high_profiles_without_44(profile_idc) ==
    profile_idc \in {100, 110, 122, 244, 83, 86, 118, 128, 138, 139, 134, 135}

\* self.profile_idc in [100, 110, 122, 244, 44, 83, 86, 118, 128, 138, 139,
\* 134, 135]
in_high_profiles(profile_idc) ==
    profile_idc \in {100, 110, 122, 244, 44, 83, 86, 118, 128, 138, 139,
                     134, 135}

\* SPS.__init__, lines 500-509: profile_idc to seq_parameter_set_id
sps_profile(r) ==
    fue(fu(fu(fu(fu(fu(fu(fu(fu(fu(r, 8, "profile_idc"),
                                   1, "constraint_set0_flag"),
                                1, "constraint_set1_flag"),
                             1, "constraint_set2_flag"),
                          1, "constraint_set3_flag"),
                       1, "constraint_set4_flag"),
                    1, "constraint_set5_flag"),
                 2, "reserved_zero_2bits"),
              8, "level_idc"),
        "seq_parameter_set_id")

\* lines 515-516, behind the read c of chroma_format_idc
sps_separate_colour_plane(c) ==
    IF c.err = "none" /\ c.val = 3
    THEN fu(c, 1, "separate_colour_plane_flag") ELSE c

\* lines 518-521
sps_bit_depth(r) ==
    fu(fu(fue(fue(r, "bit_depth_luma_minus8"), "bit_depth_chroma_minus8"),
          1, "qpprime_y_zero_transform_bypass_flag"),
       1, "seq_scaling_matrix_present_flag")

\* self.scaling_lists.append(scaling_list) behind parse_scaling_list's
\* return l
sps_list_appended(r, l) == noted(r, l.r, "scaling_lists", l.scaling_list)

\* one round of the for loop of SPS.parse_scaling_matrix, at index i
parse_scaling_matrix_round(r, i) ==
    CHOOSE y \in
        {IF p.err # "none" THEN p
         ELSE IF p.val # 0
         THEN sps_list_appended(
                  r, parse_scaling_list(p, IF i < 6 THEN 16 ELSE 64))
         ELSE noted(r, p, "scaling_lists", None) :
         p \in {u(r, 1)}} : TRUE

\* SPS.parse_scaling_matrix from index i on
RECURSIVE parse_scaling_matrix(_, _, _)
parse_scaling_matrix(r, num_scaling_lists, i) ==
    IF i >= num_scaling_lists \/ r.err # "none" THEN r
    ELSE parse_scaling_matrix(parse_scaling_matrix_round(r, i),
                              num_scaling_lists, i + 1)

\* lines 523-524, behind the read m of seq_scaling_matrix_present_flag
sps_scaling_matrix(m) ==
    IF m.err = "none" /\ m.val # 0
    THEN parse_scaling_matrix(
             m, IF Value(m, "chroma_format_idc") = 3 THEN 8 ELSE 6, 0)
    ELSE m

\* lines 511-524: the fields of the profiles of the allow-list
sps_chroma(r) ==
    IF r.err # "none" \/ ~in_high_profiles(Value(r, "profile_idc")) THEN r
    ELSE sps_scaling_matrix(
             sps_bit_depth(
                 sps_separate_colour_plane(fue(r, "chroma_format_idc"))))

\* the for loop of line 537, k rounds left
RECURSIVE sps_offsets_loop(_, _)
sps_offsets_loop(r, k) ==
    IF k <= 0 \/ r.err # "none" THEN r
    ELSE sps_offsets_loop(fse(r, "offset_for_ref_frame"), k - 1)

\* lines 537-538, behind the read n of num_ref_frames_in_pic_order_cnt_cycle
sps_offsets(n) == IF n.err # "none" THEN n ELSE sps_offsets_loop(n, n.val)

\* lines 529-538, behind the read t of pic_order_cnt_type
sps_pic_order_cnt(t) ==
    IF t.err # "none" THEN t
    ELSE IF t.val = 0 THEN fue(t, "log2_max_pic_order_cnt_lsb_minus4")
    ELSE IF t.val = 1
    THEN sps_offsets(
             fue(fse(fse(fu(t, 1, "delta_pic_order_always_zero_flag"),
                         "offset_for_non_ref_pic"),
                     "offset_for_top_to_bottom_filed"),
                 "num_ref_frames_in_pic_order_cnt_cycle"))
    ELSE t

\* lines 545-546, behind the read f of frame_mbs_only_flag
sps_frame_mbs(f) ==
    IF f.err = "none" /\ f.val = 0
    THEN fu(f, 1, "mb_adaptive_frame_field_flag") ELSE f

\* lines 540-547
sps_size(r) ==
    fu(sps_frame_mbs(
           fu(fue(fue(fu(fue(r, "num_ref_frames"),
                         1, "gaps_in_frame_num_value_allowed_flag"),
                      "pic_width_in_mbs_minus_1"),
                  "pic_height_in_map_units_minus_1"),
              1, "frame_mbs_only_flag")),
       1, "direct_8x8_inference_flag")

\* lines 549-553, behind the read c of frame_cropping_flag
sps_frame_cropping(c) ==
    IF c.err = "none" /\ c.val # 0
    THEN fue(fue(fue(fue(c, "frame_crop_left_offset"),
                     "frame_crop_right_offset"),
                 "frame_crop_top_offset"),
             "frame_crop_bottom_offset")
    ELSE c

\* the for loop of SPS.parse_hrd_parameters, k rounds left
RECURSIVE hrd_loop(_, _)
hrd_loop(r, k) ==
    IF k <= 0 \/ r.err # "none" THEN r
    ELSE hrd_loop(fu(fue(fue(r, "bit_rate_value_minus1"),
                         "cpb_size_value_minus1"),
                     1, "cbr_flag"),
                  k - 1)

\* lines 640-643, behind the read s of cpb_size_scale
hrd_values(s) ==
    IF s.err # "none" THEN s ELSE hrd_loop(s, Value(s, "cpb_cnt_minus1") + 1)

\* SPS.parse_hrd_parameters
parse_hrd_parameters(r) ==
    fu(fu(fu(fu(hrd_values(fu(fu(fue(r, "cpb_cnt_minus1"),
                                 4, "bit_rate_scale"),
                              4, "cpb_size_scale")),
                5, "initial_cpb_removal_delay_length_minus1"),
             5, "cpb_removal_delay_length_minus1"),
          5, "dpb_output_delay_length_minus1"),
       5, "time_offset_length")

\* lines 580-582, behind the read i of aspect_ratio_idc
vui_sar(i) ==
    IF i.err = "none" /\ i.val = 255
    THEN fu(fu(i, 16, "sar_width"), 16, "sar_height") ELSE i

\* lines 577-582, behind the read a of aspect_ratio_info_present_flag
vui_aspect_ratio(a) ==
    IF a.err = "none" /\ a.val # 0
    THEN vui_sar(fu(a, 8, "aspect_ratio_idc")) ELSE a

\* lines 585-586, behind the read o of overscan_info_present_flag
vui_overscan(o) ==
    IF o.err = "none" /\ o.val # 0
    THEN fu(o, 1, "overscan_appropriate_flag") ELSE o

\* lines 592-595, behind the read c of colour_description_present_flag
vui_colour(c) ==
    IF c.err = "none" /\ c.val # 0
    THEN fu(fu(fu(c, 8, "colour_primaries"), 8, "transfer_characteristics"),
            8, "matrix_coefficients")
    ELSE c

\* lines 588-595, behind the read v of video_signal_type_present_flag
vui_video_signal(v) ==
    IF v.err = "none" /\ v.val # 0
    THEN vui_colour(fu(fu(fu(v, 3, "video_format"),
                          1, "video_full_range_flag"),
                       1, "colour_description_present_flag"))
    ELSE v

\* lines 597-599, behind the read c of chroma_loc_info_present_flag
vui_chroma_loc(c) ==
    IF c.err = "none" /\ c.val # 0
    THEN fue(fue(c, "chroma_sample_loc_type_top_field"),
             "chroma_sample_loc_type_bottom_field")
    ELSE c

\* lines 601-604, behind the read t of timing_info_present_flag
vui_timing(t) ==
    IF t.err = "none" /\ t.val # 0
    THEN fu(fu(fu(t, 32, "num_units_in_tick"), 32, "time_scale"),
            1, "fixed_frame_rate_flag")
    ELSE t

\* lines 607-608 and 611-612, behind the read h of a
\* hrd_parameters_present_flag
vui_hrd(h) ==
    IF h.err = "none" /\ h.val # 0 THEN parse_hrd_parameters(h) ELSE h

\* lines 614-615
vui_low_delay(r) ==
    IF /\ r.err = "none"
       /\ \/ Value(r, "nal_hrd_parameters_present_flag") # 0
          \/ Value(r, "vcl_hrd_parameters_present_flag") # 0
    THEN fu(r, 1, "low_delay_hrd_flag") ELSE r

\* lines 618-625, behind the read b of bitstream_restriction_flag
vui_bitstream_restriction(b) ==
    IF b.err = "none" /\ b.val # 0
    THEN fue(fue(fue(fue(fue(fue(
             fu(b, 1, "motion_vectors_over_pic_boundaries_flag"),
             "max_bytes_per_pic_denom"), "max_bits_per_mb_denom"),
             "log2_max_mv_length_horizontal"),
             "log2_max_mv_length_vertical"),
             "max_num_reorder_frames"), "max_dec_frame_buffering")
    ELSE b

\* SPS.parse_vui_parameters, lines 576-604
vui_to_timing(r) ==
    vui_timing(
        fu(vui_chroma_loc(
               fu(vui_video_signal(
                      fu(vui_overscan(
                             fu(vui_aspect_ratio(
                                    fu(r, 1, "aspect_ratio_info_present_flag")),
                                1, "overscan_info_present_flag")),
                         1, "video_signal_type_present_flag")),
                  1, "chroma_loc_info_present_flag")),
           1, "timing_info_present_flag"))

\* SPS.parse_vui_parameters
parse_vui_parameters(r) ==
    vui_bitstream_restriction(
        fu(fu(vui_low_delay(
                  vui_hrd(fu(vui_hrd(fu(vui_to_timing(r),
                                        1, "nal_hrd_parameters_present_flag")),
                             1, "vcl_hrd_parameters_present_flag"))),
              1, "pic_struct_present_flag"),
           1, "bitstream_restriction_flag"))

\* lines 555-557, behind the read v of vui_parameters_present_flag
sps_vui(v) ==
    IF v.err = "none" /\ v.val # 0 THEN parse_vui_parameters(v) ELSE v

\* lines 548-557
sps_tail(r) ==
    sps_vui(fu(sps_frame_cropping(fu(r, 1, "frame_cropping_flag")),
               1, "vui_parameters_present_flag"))

\* the attributes that are lists
SpsLists ==
    {"offset_for_ref_frame", "scaling_lists", "bit_rate_value_minus1",
     "cpb_size_value_minus1", "cbr_flag"}

\* the attributes SPS.__init__ has set behind the reads of r (the lists of
\* parse_hrd_parameters are those of its last call)
sps_object(r) ==
    [err |-> r.err,
     obj |-> IF r.err # "none" THEN None
             ELSE [n \in {r.log[i].name : i \in DOMAIN r.log} \ SpsLists |->
                       Value(r, n)]
                  @@ [n \in {r.log[i].name : i \in DOMAIN r.log}
                            \cap {"bit_rate_value_minus1",
                                  "cpb_size_value_minus1", "cbr_flag"} |->
                          LastOf(Appended(r.log, n),
                                 Value(r, "cpb_cnt_minus1") + 1)]
                  @@ [cls |-> "SPS",
                      offset_for_ref_frame |->
                          Appended(r.log, "offset_for_ref_frame"),
                      seq_scaling_matrix_present_flag |-> <<>>,
                      scaling_lists |-> Appended(r.log, "scaling_lists"),
                      log |-> r.log]]

\* SPS.__init__(rbsp_bytes)
SPS(rbsp_bytes) ==
    sps_object(
        sps_tail(
            sps_size(
                sps_pic_order_cnt(
                    fue(fue(sps_chroma(sps_profile(Reader(rbsp_bytes))),
                            "log2_max_frame_num_minus4"),
                        "pic_order_cnt_type")))))

\* Python's call nalutypes.<cls>(<nargs arguments>): looking the class up in
\* the module and binding the arguments to __init__'s parameters
bind(cls, nargs) ==
    IF cls \notin DOMAIN NalutypesClasses THEN "AttributeError"
    ELSE IF nargs < NalutypesClasses[cls][1] \/ nargs > NalutypesClasses[cls][2]
         THEN "TypeError"
         ELSE "none"

\* the body of the __init__ that a successful call runs
init(cls, args) ==
    CASE cls = "AUD" -> AUD(args[1])
      [] cls = "PPS" -> PPS(args[1])
      [] cls = "SPS" -> SPS(args[1])
      [] cls = "CodedSlice" -> CodedSlice(args[1], args[2], args[3], args[4])

\* nalutypes.<cls>(*args)
new(cls, args) ==
    IF bind(cls, Len(args)) # "none"
    THEN [err |-> bind(cls, Len(args)), obj |-> None]
    ELSE init(cls, args)

---------------------------------------------------------------------------
(* H26xParser.set_callback and H26xParser.__call                            *)

\* the functions a caller registers, and a value that is not callable
Funs == {"f"}
NotCallable == "not_callable"

\* a set_callback that stores fun before it validates its arguments
set_callback_store_first(cbs, name, fun) ==
    [err |-> IF name \notin VALID_CALLBACKS \/ fun \notin Funs
             THEN "RuntimeError" ELSE "none",
     callbacks |-> [n \in DOMAIN cbs \cup {name} |->
                        IF n = name THEN fun ELSE cbs[n]]]

set_callback(cbs, name, fun) ==
    IF name \notin VALID_CALLBACKS THEN [err |-> "RuntimeError", callbacks |-> cbs]
    ELSE IF fun \notin Funs THEN [err |-> "RuntimeError", callbacks |-> cbs]
    ELSE [err |-> "none",
          callbacks |-> [n \in DOMAIN cbs \cup {name} |->
                             IF n = name THEN fun ELSE cbs[n]]]

\* a __call that invokes the callback twice
__call_twice(cbs, name, args) ==
    IF name \notin VALID_CALLBACKS \/ name \notin DOMAIN cbs THEN <<>>
    ELSE << [name |-> name, fun |-> cbs[name], args |-> args],
            [name |-> name, fun |-> cbs[name], args |-> args] >>

\* __call(name, *args): the invocations it makes (none or one)
__call(cbs, name, args) ==
    IF name \notin VALID_CALLBACKS THEN <<>>
    ELSE IF name \notin DOMAIN cbs THEN <<>>
    ELSE << [name |-> name, fun |-> cbs[name], args |-> args] >>

---------------------------------------------------------------------------
(* H26xParser.parse: the body of the loop over (current, next) positions    *)

\* self.verbose, as H26xParser(None, use_bitstream=...) sets it
verbose == FALSE

\* the branch of lines 225-243 that a nal_unit_type takes: the class parse
\* names, the arguments it passes, the callback it then calls
NoBranch == [cls |-> "", args |-> <<>>, cat |-> ""]

\* an if/elif chain that ends in an else which decodes an AUD
branch_else_aud(t, rbsp, sps, pps) ==
    IF t \in {NAL_UNIT_TYPE_SPS, NAL_UNIT_TYPE_PPS}
    THEN [cls |-> "SPS", args |-> <<rbsp, verbose>>, cat |-> "sps"]
    ELSE [cls |-> "AUD", args |-> <<rbsp, verbose>>, cat |-> "aud"]

branch(t, rbsp, sps, pps) ==
    CASE t = NAL_UNIT_TYPE_SPS ->
             [cls |-> "SPS", args |-> <<rbsp, verbose>>, cat |-> "sps"]
      [] t = NAL_UNIT_TYPE_PPS ->
             [cls |-> "PPS", args |-> <<rbsp, verbose>>, cat |-> "pps"]
      [] t = NAL_UNIT_TYPE_AUD ->
             [cls |-> "AUD", args |-> <<rbsp, verbose>>, cat |-> "aud"]
      [] t = NAL_UNIT_TYPE_CODED_SLICE_NON_IDR ->
             [cls |-> "CodedSliceNonIDR", args |-> <<rbsp, sps, pps, verbose>>,
              cat |-> "slice"]
      [] t = NAL_UNIT_TYPE_CODED_SLICE_IDR ->
             [cls |-> "CodedSliceIDR", args |-> <<rbsp, sps, pps, verbose>>,
              cat |-> "slice"]
      [] OTHER -> NoBranch

\* a loop body that catches what its statements raise
propagates_swallow(err) == FALSE

\* an exception raised in the loop body leaves parse(): nothing catches it
propagates(err) == err # "none"

\* a callback that is called whether or not the construction raised
deliver_always(err, cbs, cat, rbsp) == __call(cbs, cat, <<rbsp>>)

\* the statement after the decoder's construction: self.__call(cat, rbsp)
deliver(err, cbs, cat, rbsp) ==
    IF propagates(err) THEN <<>> ELSE __call(cbs, cat, <<rbsp>>)

\* lines 225-243 from the construction on: o is what the constructor call
\* returned or raised, b the branch taken, base the iteration before it
construct(base, o, b, sps, pps, cbs) ==
    [base EXCEPT
     !.err = o.err,
     !.calls = base.calls \o deliver(o.err, cbs, b.cat, base.rbsp_payload),
     !.decodes = IF o.err = "none"
                 THEN << [cls |-> b.cls, obj |-> o.obj,
                          sps |-> sps, pps |-> pps] >>
                 ELSE <<>>,
     !.nalu_sps = IF o.err = "none" /\ b.cat = "sps" THEN o.obj ELSE sps,
     !.nalu_pps = IF o.err = "none" /\ b.cat = "pps" THEN o.obj ELSE pps]

\* one iteration: the exception it raises, the callbacks it invokes, the
\* decoder it constructs and the locals it leaves
parse_body(s, current_nalu_pos, next_nalu_pos, sps, pps, cbs) ==
    LET current_nalu_bytepos == current_nalu_pos \div 8
        next_nalu_bytepos == next_nalu_pos \div 8
        bytes == Slice(s, current_nalu_bytepos, next_nalu_bytepos)
        c_nalu == __call(cbs, "nalu", <<bytes>>)
        d == _decode_nalu(bytes)
        b == branch(d.nal_unit_type, d.rbsp_payload, sps, pps)
        base == [err |-> d.err, calls |-> c_nalu, decodes |-> <<>>,
                 decoded |-> d.err = "none", nalu_bytes |-> bytes,
                 nal_unit_type |-> d.nal_unit_type,
                 rbsp_payload |-> d.rbsp_payload,
                 nalu_sps |-> sps, nalu_pps |-> pps]
    IN  IF d.err # "none" \/ b = NoBranch
        THEN base
        ELSE construct(base, new(b.cls, b.args), b, sps, pps, cbs)

---------------------------------------------------------------------------
(* The state machine: a parser object, configured and then parsed           *)

\* the number of (current, next) pairs of the loop
NumNalus == Len(nal_unit_positions) - 1

\* parser.set_callback(name, fun), before parse() is called
SetCallback(name, fun) ==
    /\ pc = "idle"
    /\ LET r == set_callback(callbacks, name, fun)
       IN  /\ callbacks' = r.callbacks
           /\ error' = r.err
    /\ UNCHANGED <<stream, pc, nal_unit_positions, idx, nalu_sps, nalu_pps,
                   nalu_bytes, nal_unit_type, rbsp_payload, calls, decodes, unit,
                   loop>>

\* parse() up to the loop: _get_nalu_positions and the two locals
ParseStart ==
    /\ pc \in {"idle", "done", "failed"}
    /\ LET r == _get_nalu_positions(stream)
       IN  /\ nal_unit_positions' = r.positions
           /\ pc' = IF r.exit THEN "failed" ELSE "parsing"
           /\ error' = IF r.exit THEN "SystemExit" ELSE "none"
    /\ idx' = 1
    /\ nalu_sps' = None
    /\ nalu_pps' = None
    /\ nalu_bytes' = <<>>
    /\ nal_unit_type' = -1
    /\ rbsp_payload' = <<>>
    /\ calls' = <<>>
    /\ decodes' = <<>>
    /\ UNCHANGED <<stream, callbacks, unit, loop>>

\* one iteration of the loop
ParseNalu ==
    /\ pc = "parsing"
    /\ idx <= NumNalus
    /\ \E r \in {parse_body(stream, nal_unit_positions[idx],
                           nal_unit_positions[idx + 1], nalu_sps, nalu_pps,
                           callbacks)} :
           /\ calls' = calls \o [k \in DOMAIN r.calls |->
                                    [nalu |-> idx, name |-> r.calls[k].name,
                                     fun |-> r.calls[k].fun,
                                     args |-> r.calls[k].args]]
           /\ decodes' = decodes \o [k \in DOMAIN r.decodes |->
                                    [nalu |-> idx, cls |-> r.decodes[k].cls,
                                     obj |-> r.decodes[k].obj,
                                     sps |-> r.decodes[k].sps,
                                     pps |-> r.decodes[k].pps]]
           /\ nalu_bytes' = r.nalu_bytes
           /\ error' = r.err
           /\ pc' = IF propagates(r.err) THEN "failed" ELSE "parsing"
           /\ idx' = IF propagates(r.err) THEN idx ELSE idx + 1
           /\ nalu_sps' = r.nalu_sps
           /\ nalu_pps' = r.nalu_pps
           /\ nal_unit_type' = IF r.decoded THEN r.nal_unit_type ELSE nal_unit_type
           /\ rbsp_payload' = IF r.decoded THEN r.rbsp_payload ELSE rbsp_payload
    /\ UNCHANGED <<stream, callbacks, nal_unit_positions, unit, loop>>

\* the loop is exhausted: parse() returns
ParseDone ==
    /\ pc = "parsing"
    /\ idx > NumNalus
    /\ pc' = "done"
    /\ UNCHANGED <<stream, callbacks, nal_unit_positions, idx, nalu_sps,
                   nalu_pps, nalu_bytes, nal_unit_type, rbsp_payload, calls,
                   decodes, error, unit, loop>>

Parse == ParseStart \/ ParseNalu \/ ParseDone

Configure ==
    \E name \in VALID_CALLBACKS \cup {"prefix"}, fun \in Funs \cup {NotCallable} :
        SetCallback(name, fun)

\* no decoder has been called on its own
NoUnit == [cls |-> "", args |-> <<>>, src |-> [kind |-> "none"],
           err |-> "none", obj |-> None]

\* no decoder loop is being followed
NoLoop == [kind |-> "none", r |-> Reader(<<>>), n |-> 0, st |-> <<>>,
           running |-> FALSE, src |-> <<>>]

\* the state after H26xParser(None, use_bitstream=s), whatever loop is
Fresh(s) ==
    /\ stream = s
    /\ callbacks = <<>>
    /\ pc = "idle"
    /\ nal_unit_positions = <<>>
    /\ idx = 1
    /\ nalu_sps = None
    /\ nalu_pps = None
    /\ nalu_bytes = <<>>
    /\ nal_unit_type = -1
    /\ rbsp_payload = <<>>
    /\ calls = <<>>
    /\ decodes = <<>>
    /\ error = "none"
    /\ unit = NoUnit

\* the state after H26xParser(None, use_bitstream=s)
Constructed(s) == Fresh(s) /\ loop = NoLoop

---------------------------------------------------------------------------
(* Specification Spec: streams made of whole NAL units                      *)

\* the stream of test/test.py (setUp): SPS, PPS, SEI, IDR slice
TestSPS ==
    <<0, 0, 0, 1, 103, 100, 0, 13, 172, 217, 65, 65, 251, 1, 16, 0, 0, 3, 0,
      16, 0, 0, 3, 3, 32, 241, 66, 153, 96>>
TestPPS == <<0, 0, 0, 1, 104, 235, 227, 203, 34, 192>>
TestSEI == <<0, 0, 1, 6, 5, 255, 255, 170, 220, 69, 233, 189, 230, 217, 72, 183>>
TestIDR == <<0, 0, 1, 101, 136, 132, 0, 51, 255, 254, 246, 236, 190, 5, 54, 20>>
TestStream == TestSPS \o TestPPS \o TestSEI \o TestIDR

\* the NAL units the streams are made of
Units ==
    { TestPPS,
      <<0, 0, 0, 1, 103, 66, 0, 3>>,        \* SPS, 4-byte start code
      <<0, 0, 1, 101, 136>>,                \* IDR slice, 3-byte start code
      <<0, 0, 0, 1, 65, 154>>,              \* non-IDR slice
      <<0, 0, 1, 6, 0, 0, 3, 1>>,           \* SEI with an emulation prevention byte
      <<0, 0, 0, 1, 9, 16>>,                \* AUD (tests/simple_parsing.py)
      <<0, 0, 1, 9>>,                       \* AUD without payload
      <<0, 0, 1>>,                          \* a start code and nothing else
      <<0, 0, 1, 110, 128>> }               \* prefix NAL unit (type 14)

\* the blob of tests/simple_parsing.py
AudBlob == <<0, 0, 0, 1, 9, 16>>

Streams == {Flatten(us) : us \in SeqsOf(Units, 1, MaxNalus)} \cup {TestStream}

Init == \E s \in Streams : Constructed(s)

Next == Configure \/ Parse

Spec == Init /\ [][Next]_vars

---------------------------------------------------------------------------
(* Specification SpecLoc: every buffer over a small alphabet, for the       *)
(* locator                                                                  *)

LocBytes == {0, 1, 103}

InitLoc == \E s \in SeqsOf(LocBytes, 1, MaxBuf) : Constructed(s)

\* parser.set_callback("nalu", f)
ConfigureNalu == \E fun \in Funs : SetCallback("nalu", fun)

NextLoc == ConfigureNalu \/ Parse

SpecLoc == InitLoc /\ [][NextLoc]_vars

---------------------------------------------------------------------------
(* Specification SpecRbsp: one SEI NAL unit with every payload over a small *)
(* alphabet, for the de-emulation                                           *)

RbspBytes == {0, 1, 2, 3}

InitRbsp ==
    \E p \in SeqsOf(RbspBytes, 0, MaxPayload) : Constructed(<<0, 0, 1, 6>> \o p)

NextRbsp == Parse

SpecRbsp == InitRbsp /\ [][NextRbsp]_vars

---------------------------------------------------------------------------
(* Decoders called on their own, on RBSPs written field by field            *)

RECURSIVE BitsOf(_, _)
\* the n-bit binary code of v, most significant bit first
BitsOf(v, n) == IF n = 0 THEN <<>> ELSE BitsOf(v \div 2, n - 1) \o <<v % 2>>

RECURSIVE FloorLog2(_)
FloorLog2(n) == IF n <= 1 THEN 0 ELSE 1 + FloorLog2(n \div 2)

\* the Exp-Golomb codes ue(v) and se(v)
EncUe(v) ==
    LET lz == FloorLog2(v + 1)
    IN  [i \in 1..lz |-> 0] \o BitsOf(v + 1, lz + 1)

EncSe(v) == EncUe(IF v > 0 THEN 2 * v - 1 ELSE 0 - 2 * v)

RECURSIVE UintOfBits(_)
UintOfBits(bits) ==
    IF bits = <<>> THEN 0
    ELSE 2 * UintOfBits(SubSeq(bits, 1, Len(bits) - 1)) + bits[Len(bits)]

\* rbsp_trailing_bits: the stop bit and zero bits up to the byte boundary
Trailing(bits) ==
    LET pad == 7 - (Len(bits) % 8)
    IN  bits \o <<1>> \o [i \in 1..pad |-> 0]

\* the bytes of a bit string whose length is a multiple of 8
Pack(bits) ==
    [i \in 1..(Len(bits) \div 8) |-> UintOfBits(SubSeq(bits, 8 * i - 7, 8 * i))]

RbspOf(bits) == Pack(Trailing(bits))

\* the PPS syntax elements an RBSP is written from: sg is the slice group
\* part ("one" group; two groups "dispersed", map type 1; two groups "wipe",
\* map type 4 with slice_group_change_rate_minus1 18; two groups "box",
\* map type 3; three groups "interleaved", map type 0, with their run
\* lengths; three groups "foreground", map type 2, with the rectangles of
\* the first two), ext the high-profile extension ("none"; "t0"/"t1": the
\* transform flag and no scaling matrix; "m0": a scaling matrix with no list)
PpsFields ==
    [pic_parameter_set_id : {0, 1},
     entropy_coding_mode_flag : {0, 1},
     sg : {"one", "dispersed", "box", "wipe", "interleaved", "foreground"},
     num_ref_idx_l0_active_minus1 : {0, 1, 3},
     weighted_pred_flag : {0, 1},
     pic_init_qp_minus26 : {0, -3},
     chroma_qp_index_offset : {0, -2},
     deblocking_filter_control_present_flag : {0, 1},
     redundant_pic_cnt_present_flag : {0, 1},
     ext : {"none", "t0", "t1", "m0"}]

\* the base fields of a PPS, through redundant_pic_cnt_present_flag
PpsBaseBits(f) ==
    EncUe(f.pic_parameter_set_id) \o EncUe(0)
    \o <<f.entropy_coding_mode_flag, 0>>
    \o (CASE f.sg = "one" -> EncUe(0)
          [] f.sg = "dispersed" -> EncUe(1) \o EncUe(1)
          [] f.sg = "box" -> EncUe(1) \o EncUe(3) \o <<0>> \o EncUe(0)
          [] f.sg = "wipe" -> EncUe(1) \o EncUe(4) \o <<1>> \o EncUe(18)
          [] f.sg = "interleaved" ->
                 EncUe(2) \o EncUe(0) \o EncUe(4) \o EncUe(1) \o EncUe(0)
          [] f.sg = "foreground" ->
                 EncUe(2) \o EncUe(2) \o EncUe(0) \o EncUe(5)
                 \o EncUe(2) \o EncUe(7))
    \o EncUe(f.num_ref_idx_l0_active_minus1) \o EncUe(0)
    \o <<f.weighted_pred_flag, 0, 0>>
    \o EncSe(f.pic_init_qp_minus26) \o EncSe(0)
    \o EncSe(f.chroma_qp_index_offset)
    \o <<f.deblocking_filter_control_present_flag, 0,
         f.redundant_pic_cnt_present_flag>>

PpsExtBits(f) ==
    CASE f.ext = "none" -> <<>>
      [] f.ext = "t0" -> <<0, 0>> \o EncSe(f.chroma_qp_index_offset)
      [] f.ext = "t1" -> <<1, 0>> \o EncSe(f.chroma_qp_index_offset)
      [] f.ext = "m0" -> <<0, 1, 0, 0, 0, 0, 0, 0>>
                         \o EncSe(f.chroma_qp_index_offset)

EncodePPS(f) == RbspOf(PpsBaseBits(f) \o PpsExtBits(f))

\* nalutypes.<cls>(*args), called outside parse() on an RBSP written from src
\* (a constructor call depends on its arguments only: one call is followed)
Decode(cls, args, src) ==
    /\ unit = NoUnit
    /\ \E o \in {new(cls, args)} :
           unit' = [cls |-> cls, args |-> args, src |-> src,
                    err |-> o.err, obj |-> o.obj]
    /\ UNCHANGED <<parser_vars, loop>>

DecodePPS == \E f \in PpsFields : Decode("PPS", <<EncodePPS(f)>>, f)

\* the SPS syntax elements an RBSP is written from: every profile_idc of
\* H.264 7.3.2.1.1 with chroma and bit depth fields and four without,
\* scaling the scaling matrix ("none"; "flat": present, every list absent;
\* "first": the first list present, falling back to the default), poc
\* pic_order_cnt_type, vui the VUI ("none"; "plain": every flag 0; "full":
\* every part but the HRDs; "hrd": both HRDs)
SpsFields ==
    [profile_idc : {66, 77, 88, 144, 100, 110, 122, 244, 44, 83, 86, 118,
                    128, 138, 139, 134, 135},
     chroma_format_idc : {0, 1, 3},
     scaling : {"none", "flat", "first"},
     poc : {0, 1, 2},
     frame_mbs_only_flag : {0, 1},
     frame_cropping_flag : {0, 1},
     vui : {"none", "plain", "full", "hrd"}]

\* hrd_parameters() with cpb_cnt_minus1 = n
HrdBits(n) ==
    EncUe(n) \o BitsOf(1, 4) \o BitsOf(2, 4)
    \o Flatten([k \in 1..(n + 1) |-> EncUe(k) \o EncUe(k + 1) \o <<1>>])
    \o BitsOf(23, 5) \o BitsOf(23, 5) \o BitsOf(23, 5) \o BitsOf(24, 5)

\* vui_parameters()
VuiBits(vui) ==
    CASE vui = "plain" -> <<0, 0, 0, 0, 0, 0, 0, 0, 0>>
      [] vui = "full" ->
             <<1>> \o BitsOf(255, 8) \o BitsOf(4, 16) \o BitsOf(3, 16)
             \o <<1, 1>>
             \o <<1>> \o BitsOf(5, 3) \o <<0, 1>> \o BitsOf(1, 8)
             \o BitsOf(1, 8) \o BitsOf(1, 8)
             \o <<1>> \o EncUe(0) \o EncUe(2)
             \o <<1>> \o BitsOf(1, 32) \o BitsOf(50, 32) \o <<1>>
             \o <<0, 0, 0>>
             \o <<1, 1>> \o EncUe(0) \o EncUe(0) \o EncUe(10) \o EncUe(10)
             \o EncUe(2) \o EncUe(4)
      [] vui = "hrd" ->
             <<0, 0, 0, 0, 0>>
             \o <<1>> \o HrdBits(1) \o <<1>> \o HrdBits(0)
             \o <<1, 1, 0>>

\* seq_parameter_set_data()
SpsBits(f) ==
    BitsOf(f.profile_idc, 8) \o <<0, 0, 0, 0, 0, 0, 0, 0>> \o BitsOf(13, 8)
    \o EncUe(0)
    \o (IF f.profile_idc \in {100, 110, 122, 244, 44, 83, 86, 118, 128, 138,
                              139, 134, 135}
        THEN EncUe(f.chroma_format_idc)
             \o (IF f.chroma_format_idc = 3 THEN <<0>> ELSE <<>>)
             \o EncUe(0) \o EncUe(0) \o <<0>>
             \o (CASE f.scaling = "none" -> <<0>>
                   [] f.scaling = "flat" ->
                          <<1>> \o [k \in 1..(IF f.chroma_format_idc # 3
                                               THEN 8 ELSE 12) |-> 0]
                   [] f.scaling = "first" ->
                          <<1, 1>> \o EncSe(-8)
                          \o [k \in 1..(IF f.chroma_format_idc # 3
                                         THEN 7 ELSE 11) |-> 0])
        ELSE <<>>)
    \o EncUe(0) \o EncUe(f.poc)
    \o (CASE f.poc = 0 -> EncUe(2)
          [] f.poc = 1 -> <<1>> \o EncSe(-1) \o EncSe(2) \o EncUe(2)
                          \o EncSe(1) \o EncSe(-3)
          [] OTHER -> <<>>)
    \o EncUe(4) \o <<0>> \o EncUe(19) \o EncUe(14)
    \o <<f.frame_mbs_only_flag>>
    \o (IF f.frame_mbs_only_flag = 0 THEN <<0>> ELSE <<>>)
    \o <<1, f.frame_cropping_flag>>
    \o (IF f.frame_cropping_flag = 1
        THEN EncUe(0) \o EncUe(1) \o EncUe(0) \o EncUe(2) ELSE <<>>)
    \o (IF f.vui = "none" THEN <<0>> ELSE <<1>> \o VuiBits(f.vui))

EncodeSPS(f) == RbspOf(SpsBits(f))

\* the RBSP of the SPS of test.py (TestSPS behind its NAL unit header,
\* without its emulation prevention bytes)
TestSpsRbsp ==
    <<100, 0, 13, 172, 217, 65, 65, 251, 1, 16, 0, 0, 0, 16, 0, 0, 3, 32,
      241, 66, 153, 96>>

\* the SPS objects a slice is decoded against, as the attributes
\* SPS.__init__ sets: "high" is the SPS of the sample stream of test.py,
\* "baseline" a profile without chroma_format_idc, "field" a field-coded
\* sequence with pic_order_cnt_type 2; "main" is the object SPS.__init__
\* makes of an SPS of the Main profile
SpsKinds == {"baseline", "main", "high", "field"}

\* an SPS of the Main profile, 20 x 15 macroblocks
MainSps ==
    [profile_idc |-> 77, chroma_format_idc |-> 1, scaling |-> "none",
     poc |-> 0, frame_mbs_only_flag |-> 1, frame_cropping_flag |-> 0,
     vui |-> "none"]

SpsObject(kind) ==
    LET common == [cls |-> "SPS",
                   seq_parameter_set_id |-> 0,
                   log2_max_frame_num_minus4 |-> 0,
                   pic_width_in_mbs_minus_1 |-> 19,
                   pic_height_in_map_units_minus_1 |-> 14]
    IN  CASE kind = "main" -> SPS(EncodeSPS(MainSps)).obj
          [] kind = "baseline" ->
                 common @@ [profile_idc |-> 66,
                            pic_order_cnt_type |-> 0,
                            log2_max_pic_order_cnt_lsb_minus4 |-> 2,
                            frame_mbs_only_flag |-> 1]
          [] kind = "high" ->
                 common @@ [profile_idc |-> 100,
                            chroma_format_idc |-> 1,
                            pic_order_cnt_type |-> 0,
                            log2_max_pic_order_cnt_lsb_minus4 |-> 2,
                            frame_mbs_only_flag |-> 1]
          [] kind = "field" ->
                 common @@ [profile_idc |-> 100,
                            chroma_format_idc |-> 1,
                            pic_order_cnt_type |-> 2,
                            frame_mbs_only_flag |-> 0,
                            mb_adaptive_frame_field_flag |-> 0]

\* the PPS RBSPs a slice is decoded against
SlicePpsFields ==
    {f \in PpsFields : /\ f.pic_parameter_set_id = 0
                       /\ f.sg \in {"one", "box", "wipe"}
                       /\ f.num_ref_idx_l0_active_minus1 = 1
                       /\ f.redundant_pic_cnt_present_flag = 0
                       /\ f.pic_init_qp_minus26 = 0
                       /\ f.chroma_qp_index_offset = 0
                       /\ f.ext = "t1"}

\* the slice header syntax elements an RBSP is written from
SliceFields ==
    [nut : {1, 5, 19},
     slice_type : {0, 1, 5, 7},
     frame_num : {0, 1},
     idr_pic_id : {0, 2},
     pic_order_cnt_lsb : {4},
     slice_qp_delta : {0, -10},
     sps : SpsKinds,
     pps : SlicePpsFields]

\* slice_header() written for the SPS and the PPS it names, one byte of
\* slice data behind it
SliceHeaderBits(f) ==
    LET sps == SpsObject(f.sps)
        mod5 == f.slice_type % 5
        chroma == getattr(sps, "chroma_format_idc", 0) # 0
        weights == [i \in 1..(f.pps.num_ref_idx_l0_active_minus1 + 1) |-> 0]
    IN  EncUe(0) \o EncUe(f.slice_type) \o EncUe(0)
        \o BitsOf(f.frame_num, sps.log2_max_frame_num_minus4 + 4)
        \o (IF sps.frame_mbs_only_flag = 0 THEN <<0>> ELSE <<>>)
        \o (IF f.nut = 5 THEN EncUe(f.idr_pic_id) ELSE <<>>)
        \o (IF sps.pic_order_cnt_type = 0
            THEN BitsOf(f.pic_order_cnt_lsb,
                        sps.log2_max_pic_order_cnt_lsb_minus4 + 4)
            ELSE <<>>)
        \o (IF f.pps.redundant_pic_cnt_present_flag = 1 THEN EncUe(0)
            ELSE <<>>)
        \o (IF mod5 = B_SLICE THEN <<1>> ELSE <<>>)
        \o (IF mod5 \in {P_SLICE, SP_SLICE, B_SLICE} THEN <<0>> ELSE <<>>)
        \o (IF mod5 = B_SLICE THEN <<0, 0>>
            ELSE IF mod5 = P_SLICE THEN <<0>> ELSE <<>>)
        \o (IF mod5 = P_SLICE /\ f.pps.weighted_pred_flag = 1
            THEN EncUe(0) \o (IF chroma THEN EncUe(0) ELSE <<>>)
                 \o weights \o (IF chroma THEN weights ELSE <<>>)
            ELSE <<>>)
        \o (IF f.nut = 5 THEN <<0, 0>> ELSE <<0>>)
        \o (IF f.pps.entropy_coding_mode_flag = 1
               /\ mod5 \notin {I_SLICE, SI_SLICE}
            THEN EncUe(0) ELSE <<>>)
        \o EncSe(f.slice_qp_delta)
        \o (IF f.pps.deblocking_filter_control_present_flag = 1
            THEN EncUe(1) ELSE <<>>)
        \o (IF f.pps.sg = "box" THEN BitsOf(0, 9)
            ELSE IF f.pps.sg = "wipe" THEN BitsOf(3, 5) ELSE <<>>)

EncodeSlice(f) == RbspOf(SliceHeaderBits(f)) \o <<184>>

\* CodedSlice(rbsp, sps, pps, nal_unit_type) on a slice written from f, with
\* the PPS object decoded from the PPS that f names
DecodeSlice ==
    \E f \in SliceFields :
        /\ Decode("CodedSlice",
                  <<EncodeSlice(f), SpsObject(f.sps),
                    PPS(EncodePPS(f.pps)).obj, f.nut>>, f)
        /\ PPS(EncodePPS(f.pps)).err = "none"

InitDec == Constructed(AudBlob)

NextPps == DecodePPS

SpecPps == InitDec /\ [][NextPps]_vars

NextSlice == DecodeSlice

SpecSlice == InitDec /\ [][NextSlice]_vars

\* nalutypes.SPS(rbsp_bytes) on an SPS written from f
DecodeSPS == \E f \in SpsFields : Decode("SPS", <<EncodeSPS(f)>>, f)

\* nalutypes.SPS(rbsp_bytes) on the SPS of test.py
DecodeTestSPS ==
    Decode("SPS", <<TestSpsRbsp>>,
           [profile_idc |-> 100, chroma_format_idc |-> 1, scaling |-> "none",
            poc |-> 0, frame_mbs_only_flag |-> 1, frame_cropping_flag |-> 0,
            vui |-> "test"])

NextSps == DecodeSPS \/ DecodeTestSPS

SpecSps == InitDec /\ [][NextSps]_vars

\* the slice headers the reference lists are decoded from: P, B and I
\* slices, with num_ref_idx_active_override_flag 0 (-1) or the count it
\* overrides with, the modification_of_pic_nums_idc codes of the two lists
\* (none: the flag is 0) and the memory management control operations (none:
\* the flag is 0), for a PPS whose num_ref_idx_l0_active_minus1 is pps_l0
RefFields ==
    [nut : {1, 5},
     slice_type : {P_SLICE, B_SLICE, I_SLICE},
     override : {-1, 0, 2},
     l0 : {<<>>, <<3>>, <<0, 3>>, <<0, 1, 3>>, <<0, 1>>, <<2, 0, 1, 3>>},
     l1 : {<<>>, <<1, 3>>},
     mmco : {<<>>, <<0>>, <<1, 0>>, <<2, 0>>, <<3, 0>>, <<4, 0>>, <<5, 0>>,
             <<6, 0>>, <<7, 0>>, <<1, 3, 0>>},
     pps_l0 : {0, 1}]

\* the PPS object of a PPS with the reference count pps_l0
RefPps(pps_l0) ==
    PPS(EncodePPS([pic_parameter_set_id |-> 0, entropy_coding_mode_flag |-> 0,
                   sg |-> "one", num_ref_idx_l0_active_minus1 |-> pps_l0,
                   weighted_pred_flag |-> 0, pic_init_qp_minus26 |-> 0,
                   chroma_qp_index_offset |-> 0,
                   deblocking_filter_control_present_flag |-> 0,
                   redundant_pic_cnt_present_flag |-> 0, ext |-> "t1"])).obj

\* ref_pic_list_modification() of one list: the flag, and a value
\* (here idc + 4) behind every idc but 3
RECURSIVE RplmBits(_)
RplmBits(idcs) ==
    IF idcs = <<>> THEN <<>>
    ELSE EncUe(Head(idcs))
         \o (IF Head(idcs) = 3 THEN <<>> ELSE EncUe(Head(idcs) + 4))
         \o RplmBits(Tail(idcs))

\* the operands H.264 7.3.3.3 gives a memory management control operation
MmcoOperands(op) ==
    CASE op \in {1, 2, 4, 6} -> EncUe(op + 1)
      [] op = 3 -> EncUe(1) \o EncUe(2)
      [] OTHER -> <<>>

RECURSIVE MmcoBits(_)
MmcoBits(ops) ==
    IF ops = <<>> THEN <<>>
    ELSE EncUe(Head(ops)) \o MmcoOperands(Head(ops)) \o MmcoBits(Tail(ops))

\* slice_header() for the SPS "high" and RefPps, slice_qp_delta -10
RefHeaderBits(f) ==
    EncUe(0) \o EncUe(f.slice_type) \o EncUe(0)
    \o BitsOf(1, 4)
    \o (IF f.nut = 5 THEN EncUe(2) ELSE <<>>)
    \o BitsOf(4, 6)
    \o (IF f.slice_type = B_SLICE THEN <<1>> ELSE <<>>)
    \o (IF f.slice_type = I_SLICE THEN <<>>
        ELSE IF f.override = -1 THEN <<0>>
        ELSE <<1>> \o EncUe(f.override)
             \o (IF f.slice_type = B_SLICE THEN EncUe(1) ELSE <<>>))
    \o (IF f.slice_type = I_SLICE THEN <<>>
        ELSE IF f.l0 = <<>> THEN <<0>> ELSE <<1>> \o RplmBits(f.l0))
    \o (IF f.slice_type # B_SLICE THEN <<>>
        ELSE IF f.l1 = <<>> THEN <<0>> ELSE <<1>> \o RplmBits(f.l1))
    \o (IF f.nut = 5 THEN <<0, 0>>
        ELSE IF f.mmco = <<>> THEN <<0>> ELSE <<1>> \o MmcoBits(f.mmco))
    \o EncSe(-10)

EncodeRef(f) == RbspOf(RefHeaderBits(f)) \o <<184>>

\* CodedSlice(rbsp, sps, pps, nal_unit_type) on a slice written from f
DecodeRef ==
    \E f \in RefFields :
        Decode("CodedSlice",
               <<EncodeRef(f), SpsObject("high"), RefPps(f.pps_l0), f.nut>>, f)

NextRef == DecodeRef

SpecRef == InitDec /\ [][NextRef]_vars

\* the slice NAL units a decode is followed from: a short start code, the
\* header byte with nal_ref_idc and nal_unit_type, and the slice of f
NaluFields ==
    {f \in RefFields : /\ f.override = -1
                       /\ f.l0 \in {<<>>, <<0, 3>>}
                       /\ f.l1 = <<>>
                       /\ f.pps_l0 = 1}

NaluOf(f, nal_ref_idc) ==
    START_CODE_PREFIX_SHORT \o <<32 * nal_ref_idc + f.nut>> \o EncodeRef(f)

\* the constructor call on what _decode_nalu returns for the NAL unit:
\* nal_unit_type and rbsp_payload
slice_of_nalu(d, sps, pps) ==
    [cls |-> "CodedSlice",
     args |-> <<d.rbsp_payload, sps, pps, d.nal_unit_type>>]

\* _decode_nalu on a slice NAL unit, then CodedSlice on what it returns
DecodeNalu ==
    \E f \in NaluFields, nal_ref_idc \in 0..3 :
        \E c \in {slice_of_nalu(_decode_nalu(NaluOf(f, nal_ref_idc)),
                                SpsObject("high"), RefPps(f.pps_l0))} :
            Decode(c.cls, c.args, [slice |-> f, nal_ref_idc |-> nal_ref_idc])

NextNalu == DecodeNalu

SpecNalu == InitDec /\ [][NextNalu]_vars

---------------------------------------------------------------------------
(* Specification SpecTerm: parse() run to its end, or one decoder loop      *)
(* followed round by round                                                  *)

\* the pieces the loops' inputs are made of, as Exp-Golomb codes: 85 is
\* 1 0 1 0, 255 eight zeros, 0 has no 1 bit, 8 128 is se(-8); behind a set
\* flag bit 170 is 1 0 1, 144 is 3, 152 198 is 5 5 5
LoopChunks ==
    {<<85>>, <<255>>, <<0>>, <<8, 128>>, <<170>>, <<144>>, <<152, 198>>}

MaxLoopChunks == 2

LoopInputs == {Flatten(cs) : cs \in SeqsOf(LoopChunks, 1, MaxLoopChunks)}

\* the loops of the decoders at their entry, on the bytes b:
\* the while loop of _parse_dec_ref_pic_marking behind a set
\* adaptive_ref_pic_marking_mode_flag, the for loop of
\* _parse_ref_pic_list_modification behind a set flag with
\* num_ref_idx_l0_active_minus1 + 1 rounds, the for loop of parse_scaling_list
LoopEntries(b) ==
    LET f == fu(Reader(b), 1, "adaptive_ref_pic_marking_mode_flag")
        g == fu(Reader(b), 1, "ref_pic_list_modification_flag_l0")
    IN  {[NoLoop EXCEPT !.kind = "mmco", !.r = f, !.running = TRUE] :
             x \in {y \in {f} : y.err = "none" /\ y.val # 0}}
        \cup {[NoLoop EXCEPT !.kind = "rplm", !.r = g, !.n = n,
                             !.running = TRUE] :
                 n \in {m \in {1, 2, 4} : g.err = "none" /\ g.val # 0}}
        \cup {[NoLoop EXCEPT !.kind = "scaling", !.r = Reader(b), !.n = n,
                             !.st = [i |-> 0, last_scale |-> 8,
                                     next_scale |-> 8, scaling_list |-> <<>>,
                                     use_default_scaling_matrix_flag |-> 0],
                             !.running = TRUE] :
                 n \in {16}}

\* one evaluation of while self.s.pos < len(self.s) and, if it holds, one
\* round of the loop
MmcoStep ==
    /\ loop.kind = "mmco"
    /\ loop.running
    /\ loop' = IF mmco_cond(loop.r)
               THEN CHOOSE y \in {[loop EXCEPT !.r = i.r, !.running = ~i.brk] :
                                    i \in {mmco_iter(loop.r)}} : TRUE
               ELSE [loop EXCEPT !.running = FALSE]
    /\ UNCHANGED <<parser_vars, unit>>

\* one step of for _ in range(self.num_ref_idx_l0_active_minus1 + 1)
RplmStep ==
    /\ loop.kind = "rplm"
    /\ loop.running
    /\ loop' = IF loop.n > 0
               THEN CHOOSE y \in {[loop EXCEPT !.r = i.r, !.n = @ - 1,
                                                 !.running = ~i.brk] :
                                    i \in {rplm_iter(loop.r, "l0")}} : TRUE
               ELSE [loop EXCEPT !.running = FALSE]
    /\ UNCHANGED <<parser_vars, unit>>

\* one step of for i in range(sizeOfScalingList)
ScalingStep ==
    /\ loop.kind = "scaling"
    /\ loop.running
    /\ loop' = IF loop.st.i < loop.n
               THEN CHOOSE y \in
                        {[loop EXCEPT
                            !.r = x.r,
                            !.st = [i |-> loop.st.i + 1,
                                    last_scale |-> x.last_scale,
                                    next_scale |-> x.next_scale,
                                    scaling_list |-> x.scaling_list,
                                    use_default_scaling_matrix_flag |->
                                        x.use_default_scaling_matrix_flag],
                            !.running = ~x.brk] :
                         x \in {scaling_list_iter(loop.r, loop.st.i,
                                                  loop.st.last_scale,
                                                  loop.st.next_scale,
                                                  loop.st.scaling_list)}} : TRUE
               ELSE [loop EXCEPT !.running = FALSE]
    /\ UNCHANGED <<parser_vars, unit>>

LoopStep == MmcoStep \/ RplmStep \/ ScalingStep

\* parse() on a parser of its own
ParseAlone == loop = NoLoop /\ Parse

\* the streams parse() is followed on: made of an SEI with an emulation
\* prevention byte, an AUD and a bare start code, and the stream of test.py
TermUnits == {<<0, 0, 1, 6, 0, 0, 3, 1>>, AudBlob, <<0, 0, 1>>}

TermStreams ==
    {Flatten(us) : us \in SeqsOf(TermUnits, 1, MaxNalus)} \cup {TestStream}

InitTerm ==
    \/ \E s \in TermStreams : Constructed(s)
    \/ /\ Fresh(AudBlob)
       /\ \E b \in LoopInputs : loop \in LoopEntries(b)

NextTerm == ParseAlone \/ LoopStep

\* the delta_scale values scaling lists are written from: up to two deltas
\* of Deltas, then one delta repeated up to the 64 a list can read
Deltas == {-264, -128, -8, -1, 0, 1, 127}

FillDeltas == {-1, 0, 1, 127}

MaxPrefix == 2

DeltaSeqs ==
    {p \o [k \in 1..(64 - Len(p)) |-> d] :
         p \in SeqsOf(Deltas, 0, MaxPrefix), d \in FillDeltas}

\* the se codes of the deltas ds
RECURSIVE DeltaBits(_)
DeltaBits(ds) ==
    IF ds = <<>> THEN <<>> ELSE EncSe(Head(ds)) \o DeltaBits(Tail(ds))

\* parse_scaling_list(bitreader, n) at its entry, on the deltas ds
ScalingEntry(ds, n) ==
    [NoLoop EXCEPT !.kind = "scaling", !.r = Reader(RbspOf(DeltaBits(ds))),
                   !.n = n, !.src = ds,
                   !.st = [i |-> 0, last_scale |-> 8, next_scale |-> 8,
                           scaling_list |-> <<>>,
                           use_default_scaling_matrix_flag |-> 0],
                   !.running = TRUE]

InitScaling ==
    /\ Fresh(AudBlob)
    /\ \E ds \in DeltaSeqs, n \in {16, 64} : loop = ScalingEntry(ds, n)

NextScaling == ScalingStep

SpecScaling == InitScaling /\ [][NextScaling]_vars

\* parse() and the decoders are sequential code: a loop that can make its
\* next step makes it
SpecTerm ==
    /\ InitTerm
    /\ [][NextTerm]_vars
    /\ WF_vars(ParseNalu)
    /\ WF_vars(ParseDone)
    /\ WF_vars(LoopStep)

---------------------------------------------------------------------------
(* What the claims speak of                                                 *)

\* parse() has run _get_nalu_positions and found NALUs
Located == pc # "idle" /\ error # "SystemExit"

\* the bytes of NALU k (its start code included), as parse() slices them
NaluBytes(k) ==
    Slice(stream, nal_unit_positions[k] \div 8, nal_unit_positions[k + 1] \div 8)

\* the inclusive byte range of NALU k
NaluStart(k) == nal_unit_positions[k] \div 8
NaluEnd(k) == (nal_unit_positions[k + 1] \div 8) - 1

\* the iteration of NALU k has run (to its end, or to an exception)
Processed(k) ==
    /\ Located
    /\ k \in 1..NumNalus
    /\ k < idx \/ (pc = "failed" /\ k = idx)

\* a 00 00 01 at 0-based byte offset m of s
ShortAt(s, m) == m >= 0 /\ m + 3 <= Len(s) /\ Slice(s, m, m + 3) = <<0, 0, 1>>
LongAt(s, m) == m >= 0 /\ m + 4 <= Len(s) /\ Slice(s, m, m + 4) = <<0, 0, 0, 1>>

\* the start codes of a buffer as the Annex B framing defines them: every
\* 00 00 01, counted as a 4-byte start code beginning one byte earlier when
\* the byte before it is 00
StartCodes(s) ==
    { IF LongAt(s, m - 1) THEN [start |-> m - 1, len |-> 4]
                          ELSE [start |-> m, len |-> 3] :
      m \in {n \in 0..(Len(s) - 1) : ShortAt(s, n)} }

HasStartCode(s) == \E m \in 0..(Len(s) - 1) : ShortAt(s, m)

\* the start code that begins at byte offset o, if any
StartCodeFrom(s, o) == {c \in StartCodes(s) : c.start = o}

\* a byte follows the start code c and is not the next start code's
HasHeader(s, c) ==
    /\ c.start + c.len < Len(s)
    /\ StartCodeFrom(s, c.start + c.len) = {}

\* C1: for every buffer with at least one start code, the locator reports
\* exactly one NALU per start code, in ascending byte order, a 00 00 01 after
\* a 00 counting as a 4-byte start code one byte earlier, and the
\* nal_unit_type of each NALU is the low 5 bits of the byte that follows its
\* start code.
C1_OneNaluPerStartCode ==
    (pc # "idle" /\ HasStartCode(stream)) =>
        /\ Located
        /\ [k \in 1..NumNalus |-> nal_unit_positions[k]]
               = ListOf({8 * c.start : c \in StartCodes(stream)})
        /\ \A c \in StartCodes(stream) :
               HasHeader(stream, c) =>
                   \E k \in 1..NumNalus :
                       /\ NaluStart(k) = c.start
                       /\ _decode_nalu(NaluBytes(k)).nal_unit_type
                              = stream[c.start + c.len + 1] % 32

\* the buffers on which the locator shifts its first position: a 3-byte
\* start code at offset 0 and a 4-byte start code somewhere behind it
ShiftedFirst(s) == ShortAt(s, 0) /\ \E m \in 1..Len(s) : LongAt(s, m)

\* on every other buffer the statement of C1 holds
C1_HoldsUnlessShifted == ShiftedFirst(stream) \/ C1_OneNaluPerStartCode

\* the stream of the test (SPS, PPS, SEI, IDR slice with 4-, 4-, 3- and 3-byte
\* start codes) is located as 4 NALUs of types 7, 8, 6, 5
C1_TestStreamLocated ==
    (stream = TestStream /\ Located) =>
        /\ NumNalus = 4
        /\ [k \in 1..4 |-> _decode_nalu(NaluBytes(k)).nal_unit_type]
               = <<7, 8, 6, 5>>

\* C2: every NALU start offset the locator produces is the offset of the
\* first byte of a 00 00 01 or 00 00 00 01 start code; a buffer that begins
\* with a 3-byte start code has its first NALU at offset 0.
C2_StartOffsetsAreStartCodes ==
    Located =>
        /\ \A k \in 1..NumNalus :
               ShortAt(stream, NaluStart(k)) \/ LongAt(stream, NaluStart(k))
        /\ ShortAt(stream, 0) => NaluStart(1) = 0

\* C3: for every buffer that begins with a start code, the byte ranges of
\* the NALUs (start code included) are strictly ordered by start offset,
\* neither overlap nor leave a gap, end at length - 1, and cover the buffer.
C3_RangesCoverBuffer ==
    (Located /\ (ShortAt(stream, 0) \/ LongAt(stream, 0))) =>
        /\ NaluStart(1) = 0
        /\ \A k \in 1..NumNalus : NaluStart(k) <= NaluEnd(k)
        /\ \A k \in 1..(NumNalus - 1) :
               /\ NaluStart(k) < NaluStart(k + 1)
               /\ NaluEnd(k) + 1 = NaluStart(k + 1)
        /\ NaluEnd(NumNalus) = Len(stream) - 1
        /\ UNION {NaluStart(k)..NaluEnd(k) : k \in 1..NumNalus}
               = 0..(Len(stream) - 1)

\* on every buffer the locator does not shift, the statement of C3 holds
C3_HoldsUnlessShifted == ShiftedFirst(stream) \/ C3_RangesCoverBuffer

\* C10: if the buffer holds no 00 00 01 anywhere, parse() ends in the fatal
\* "No NALUs found in stream" exit (SystemExit reaches the caller) and no
\* callback is invoked.
C10_NoNaluFoundIsFatal ==
    (pc # "idle" /\ ~HasStartCode(stream)) =>
        /\ pc = "failed"
        /\ error = "SystemExit"
        /\ calls = <<>>
        /\ nal_unit_positions = <<>>

C10_Witness ==
    /\ ~HasStartCode(stream)
    /\ pc = "failed"
    /\ error = "SystemExit"
    /\ "nalu" \in DOMAIN callbacks

---------------------------------------------------------------------------
(* De-emulation                                                             *)

\* the last iteration decoded its NALU: rbsp_payload is the RBSP of nalu_bytes
RbspDecoded == Len(nalu_bytes) > start_code_len(nalu_bytes)

\* the payload of the NALU of the last iteration: its bytes after the header
Payload ==
    SubSeq(nalu_bytes, start_code_len(nalu_bytes) + 2, Len(nalu_bytes))

\* one left-to-right pass that rewrites each 00 00 03 to 00 00, resumes after
\* the triplet, and copies every other byte
RECURSIVE OnePass(_)
OnePass(p) ==
    IF p = <<>> THEN <<>>
    ELSE IF Len(p) >= 3 /\ SubSeq(p, 1, 3) = <<0, 0, 3>>
         THEN <<0, 0>> \o OnePass(SubSeq(p, 4, Len(p)))
         ELSE <<Head(p)>> \o OnePass(Tail(p))

HasTriplet(p) == \E i \in 1..(Len(p) - 2) : SubSeq(p, i, i + 2) = <<0, 0, 3>>

\* C4: the RBSP of every NALU payload is the result of one left-to-right
\* pass that rewrites each 00 00 03 to 00 00 and resumes after the triplet;
\* 00 00 03 0x yields 00 00 0x, and 00 00 03 98 76 yields 00 00 98 76.
C4_RbspIsOnePass ==
    /\ RbspDecoded => rbsp_payload = OnePass(Payload)
    /\ \A x \in 0..3 : rbsp_of(<<0, 0, 3, x>>) = <<0, 0, x>>
    /\ rbsp_of(<<0, 0, 3, 152, 118>>) = <<0, 0, 152, 118>>
    /\ rbsp_of(<<0, 0, 3>>) = <<0, 0>>

C4_Witness ==
    /\ RbspDecoded
    /\ Payload = <<2, 0, 0, 3, 1>>
    /\ rbsp_payload = <<2, 0, 0, 1>>

\* C5 as stated: de-emulation is idempotent, its output never contains a
\* 00 00 03 triplet.
C5_Idempotent ==
    RbspDecoded =>
        /\ rbsp_of(rbsp_payload) = rbsp_payload
        /\ ~HasTriplet(rbsp_payload)

\* C5 as amended: de-emulating the output of de-emulation returns it
\* unchanged exactly when that output contains no 00 00 03 triplet (and it
\* can contain one: 00 00 03 03 yields 00 00 03); a second pass never
\* lengthens it.
C5_IdempotentIffNoTriplet ==
    RbspDecoded =>
        /\ (rbsp_of(rbsp_payload) = rbsp_payload) <=> ~HasTriplet(rbsp_payload)
        /\ Len(rbsp_of(rbsp_payload)) <= Len(rbsp_payload)
        /\ Len(rbsp_payload) <= Len(Payload)

C5_Witness ==
    /\ RbspDecoded
    /\ Payload = <<0, 0, 3, 3>>
    /\ rbsp_payload = <<0, 0, 3>>
    /\ rbsp_of(rbsp_payload) = <<0, 0>>

---------------------------------------------------------------------------
(* Dispatch                                                                 *)

\* the nal_unit_type parse() reads from NALU k (-1 when the read fails)
NaluType(k) == _decode_nalu(NaluBytes(k)).nal_unit_type

\* the category of a nal_unit_type that has a semantic decoder
Category(t) == branch(t, <<>>, None, None).cat

IsSlice(k) ==
    NaluType(k) \in {NAL_UNIT_TYPE_CODED_SLICE_NON_IDR,
                     NAL_UNIT_TYPE_CODED_SLICE_IDR}

\* the decoder objects parse() constructed for NALU k
DecodesOf(k) == {d \in Range(decodes) : d.nalu = k}

\* the callback invocations parse() made for NALU k
CallsOf(k) == {c \in Range(calls) : c.nalu = k}

\* the last NALU before k of nal_unit_type t, 0 if there is none
LastBefore(k, t) ==
    LET S == {j \in 1..(k - 1) : NaluType(j) = t}
    IN  IF S = {} THEN 0 ELSE CHOOSE j \in S : \A i \in S : i <= j

\* C6: for every NALU whose category (sps, pps, aud, slice) has a registered
\* callback, parse() invokes that callback with the decoded unit, the NALU's
\* nal_unit_type and its inclusive byte start and end offsets.
C6_CategoryCallbackGetsUnit ==
    \A k \in 1..Len(nal_unit_positions) - 1 :
        (/\ Processed(k)
         /\ Category(NaluType(k)) \in DOMAIN callbacks)
        => \E c \in CallsOf(k), d \in DecodesOf(k) :
               /\ c.name = Category(NaluType(k))
               /\ c.args = <<d.obj, NaluType(k), NaluStart(k), NaluEnd(k)>>

\* C7: once parse() has ended, every slice NALU (nal_unit_type 1 or 5) that
\* follows an SPS NALU and a PPS NALU has been decoded, and the SPS and PPS
\* used to decode it are the objects decoded from the most recent SPS NALU
\* and the most recent PPS NALU before it.
C7_SliceUsesMostRecentSpsPps ==
    \A k \in 1..Len(nal_unit_positions) - 1 :
        (/\ Located
         /\ pc \in {"done", "failed"}
         /\ IsSlice(k)
         /\ LastBefore(k, NAL_UNIT_TYPE_SPS) # 0
         /\ LastBefore(k, NAL_UNIT_TYPE_PPS) # 0)
        => \E d \in DecodesOf(k),
              ds \in DecodesOf(LastBefore(k, NAL_UNIT_TYPE_SPS)),
              dp \in DecodesOf(LastBefore(k, NAL_UNIT_TYPE_PPS)) :
               /\ d.sps = ds.obj
               /\ d.pps = dp.obj

\* no SPS, or no PPS, has been decoded before NALU k in this parse
NoContextBefore(k) ==
    \/ ~ \E d \in Range(decodes) : d.nalu < k /\ d.cls = "SPS"
    \/ ~ \E d \in Range(decodes) : d.nalu < k /\ d.cls = "PPS"

\* C8: if a slice NALU (nal_unit_type 1 or 5) is reached while no SPS or no
\* PPS has been decoded in this parse, parse() fails with an exception at
\* that NALU and the slice callback is not invoked for it.
C8_SliceWithoutContextIsFatal ==
    \A k \in 1..Len(nal_unit_positions) - 1 :
        (Processed(k) /\ IsSlice(k) /\ NoContextBefore(k))
        => /\ pc = "failed"
           /\ idx = k
           /\ error \notin {"none", "SystemExit"}
           /\ nalu_sps = None \/ nalu_pps = None
           /\ ~ \E c \in CallsOf(k) : c.name = "slice"

C8_Witness ==
    /\ pc = "failed"
    /\ idx = 2
    /\ Processed(2) /\ IsSlice(2) /\ NoContextBefore(2)
    /\ NaluType(1) = NAL_UNIT_TYPE_SEI
    /\ {"nalu", "slice"} \subseteq DOMAIN callbacks
    /\ error = "AttributeError"
    /\ Len(calls) = 2

\* the exceptions an iteration of the loop raises
LoopErrors == {"ReadError", "TypeError", "AttributeError"}

---------------------------------------------------------------------------
(* Dispatch of the single NALU types                                        *)

\* C11: parsing the buffer 00 00 00 01 09 10 completes without error and
\* locates exactly one NALU, of nal_unit_type 9, whose primary_pic_type (0) is
\* decoded from the first 3 bits after the NAL header; the AUD decoder
\* consumes exactly 3 bits.
C11_AudBlobParses ==
    (stream = AudBlob /\ pc \in {"done", "failed"}) =>
        /\ pc = "done"
        /\ error = "none"
        /\ NumNalus = 1
        /\ NaluType(1) = NAL_UNIT_TYPE_AUD
        /\ \E d \in DecodesOf(1) :
               /\ d.cls = "AUD"
               /\ d.obj.primary_pic_type = 0
               /\ d.obj.pos = 3

\* C12: a NALU of nal_unit_type 14 that parse() has passed is decoded by the
\* Prefix decoder and delivered to the callback registered for "prefix", and
\* set_callback accepts the name "prefix".
C12_PrefixDecodedAndDelivered ==
    /\ set_callback(<<>>, "prefix", "f").err = "none"
    /\ \A k \in 1..Len(nal_unit_positions) - 1 :
           (Processed(k) /\ k < idx /\ NaluType(k) = NAL_UNIT_TYPE_PREFIX)
           => /\ \E d \in DecodesOf(k) : d.cls = "Prefix"
              /\ "prefix" \in DOMAIN callbacks
                     => \E c \in CallsOf(k) : c.name = "prefix"

\* the bytes of NALU k after its start code: the NAL header and the payload
AfterStartCode(k) ==
    SubSeq(NaluBytes(k), start_code_len(NaluBytes(k)) + 1, Len(NaluBytes(k)))

\* what the statement self.__call(<category>, ...) of NALU k passes to a
\* callback registered for that category
CategoryData(k) ==
    LET d == _decode_nalu(NaluBytes(k))
        cat == Category(d.nal_unit_type)
    IN  deliver("none", [n \in {cat} |-> "f"], cat, d.rbsp_payload)

\* C13: the data passed to the sps, pps, aud and slice callbacks is the NALU
\* without its start code but with its NAL header byte; the data passed to
\* the nalu callback is the NALU with its start code.
C13_CategoryDataHasHeader ==
    \A k \in 1..Len(nal_unit_positions) - 1 :
        /\ (Processed(k) /\ NaluType(k) >= 0 /\ Category(NaluType(k)) # "")
           => \A i \in DOMAIN CategoryData(k) :
                  CategoryData(k)[i].args = <<AfterStartCode(k)>>
        /\ \A c \in CallsOf(k) : c.name = "nalu" => c.args = <<NaluBytes(k)>>

\* the calls of the callback `name` made for NALU k
CallIndexes(k, name) ==
    {i \in DOMAIN calls : calls[i].nalu = k /\ calls[i].name = name}

\* callbacks are invoked in NALU order, and for one NALU the nalu callback
\* comes first and at most one other follows it
InByteOrder ==
    \A i, j \in DOMAIN calls :
        i < j => /\ calls[i].nalu <= calls[j].nalu
                 /\ calls[i].nalu = calls[j].nalu
                        => calls[i].name = "nalu" /\ calls[j].name # "nalu"

\* C14 as stated: callbacks are invoked in input-byte order, and once parse()
\* has ended the nalu callback has been invoked exactly once for every
\* located NALU.
C14_NaluCallbackForEveryLocated ==
    /\ InByteOrder
    /\ (Located /\ pc \in {"done", "failed"} /\ "nalu" \in DOMAIN callbacks)
       => \A k \in 1..NumNalus : Cardinality(CallIndexes(k, "nalu")) = 1

\* C14 as amended: callbacks are invoked in input-byte order; the nalu
\* callback is invoked exactly once for every located NALU that parse()
\* reaches before it returns or raises, and never for a later one; for a
\* given NALU it precedes the category callback, which is invoked at most
\* once.
C14_CallbacksInByteOrder ==
    /\ InByteOrder
    /\ \A k \in 1..Len(nal_unit_positions) - 1 :
           /\ (Processed(k) /\ "nalu" \in DOMAIN callbacks)
              => Cardinality(CallIndexes(k, "nalu")) = 1
           /\ ~Processed(k) => CallsOf(k) = {}

C14_Witness ==
    /\ pc = "failed"
    /\ idx = 2
    /\ NumNalus = 2
    /\ DOMAIN callbacks = VALID_CALLBACKS
    /\ Len(calls) = 2
    /\ calls[1].nalu = 1 /\ calls[2].nalu = 2

\* a NALU of nal_unit_type t has been passed by parse()
Passed(t) ==
    \E k \in 1..Len(nal_unit_positions) - 1 :
        Processed(k) /\ NaluType(k) = t

\* C15: both slots are empty at the start of every parse; once an SPS NALU
\* has been processed the SPS slot holds a decoded SPS, once a PPS NALU has
\* been processed the PPS slot holds a decoded PPS, and nothing else fills a
\* slot.
C15_TwoLatches ==
    /\ (pc = "parsing" /\ idx = 1) => (nalu_sps = None /\ nalu_pps = None)
    /\ Located =>
           /\ nalu_sps # None <=> Passed(NAL_UNIT_TYPE_SPS)
           /\ nalu_pps # None <=> Passed(NAL_UNIT_TYPE_PPS)

\* the nal_unit_types for which parse() names a decoder class
DecodedTypes ==
    {NAL_UNIT_TYPE_CODED_SLICE_NON_IDR, NAL_UNIT_TYPE_CODED_SLICE_IDR,
     NAL_UNIT_TYPE_SPS, NAL_UNIT_TYPE_PPS, NAL_UNIT_TYPE_AUD}

\* C17: for a NALU whose nal_unit_type has no semantic decoder, parse() runs
\* no decoder, invokes only the nalu callback (with the NALU's bytes), and
\* goes on to the next NALU without an exception.
C17_UndecodedTypeOnlyNalu ==
    \A k \in 1..Len(nal_unit_positions) - 1 :
        (Processed(k) /\ NaluType(k) \in (0..31) \ DecodedTypes)
        => /\ DecodesOf(k) = {}
           /\ \A c \in CallsOf(k) : c.name = "nalu" /\ c.args = <<NaluBytes(k)>>
           /\ "nalu" \in DOMAIN callbacks => CallsOf(k) # {}
           /\ k < idx
           /\ (k = idx - 1 /\ pc # "failed") => error = "none"

C17_Witness ==
    /\ pc = "done"
    /\ NumNalus = 2
    /\ NaluType(1) = NAL_UNIT_TYPE_SEI
    /\ NaluType(2) = NAL_UNIT_TYPE_SEI
    /\ DOMAIN callbacks = VALID_CALLBACKS
    /\ Len(calls) = 2
    /\ decodes = <<>>
    /\ error = "none"

---------------------------------------------------------------------------
(* The callback table                                                       *)

\* what a step set_callback(name, fun) has to do
SetCallbackContract(name, fun) ==
    SetCallback(name, fun) =>
        IF name \notin {"sps", "pps", "slice", "aud", "nalu"} \/ fun = NotCallable
        THEN /\ error' = "RuntimeError"
             /\ callbacks' = callbacks
        ELSE /\ error' = "none"
             /\ DOMAIN callbacks' = DOMAIN callbacks \cup {name}
             /\ callbacks'[name] = fun
             /\ \A n \in DOMAIN callbacks \ {name} : callbacks'[n] = callbacks[n]

\* a NALU is passed without a call when no callback is registered for it
SilentlySkipped ==
    /\ \A c \in Range(calls) : c.name \in DOMAIN callbacks
    /\ \A k \in 1..Len(nal_unit_positions) - 1 :
           (Processed(k) /\ "nalu" \notin DOMAIN callbacks
                         /\ NaluType(k) \in (0..31) \ DecodedTypes)
           => CallsOf(k) = {} /\ k < idx

\* C18: set_callback(name, fun) raises RuntimeError and leaves the callback
\* table unchanged when name is not a valid callback name or fun is not
\* callable; otherwise it stores fun under name and changes no other entry;
\* during parse a callback that is not registered is silently skipped.
C18_SetCallbackContract ==
    /\ [][\A name \in VALID_CALLBACKS \cup {"prefix"},
             fun \in Funs \cup {NotCallable} :
                 SetCallbackContract(name, fun)]_vars
    /\ []SilentlySkipped

C18_Witness ==
    /\ pc = "idle"
    /\ error = "RuntimeError"
    /\ DOMAIN callbacks = {"nalu", "aud"}

---------------------------------------------------------------------------
(* The PPS decoder                                                          *)

\* a PPS has been decoded from an RBSP that carries no extension
PpsWithoutExtension == unit.cls = "PPS" /\ unit.src.ext = "none"

\* C20: a PPS RBSP with no high-profile extension (the base fields, the stop
\* bit and zero padding) decodes without error and leaves
\* transform_8x8_mode_flag, pic_scaling_matrix_present_flag and
\* second_chroma_qp_index_offset unset, wherever in a byte the base fields
\* end.
C20_PpsWithoutExtensionDecodes ==
    PpsWithoutExtension =>
        /\ unit.err = "none"
        /\ {"transform_8x8_mode_flag", "pic_scaling_matrix_present_flag",
            "second_chroma_qp_index_offset"} \subseteq unit.obj.none
        /\ unit.obj.pos = Len(PpsBaseBits(unit.src))

\* the same, for base fields that do not end on a byte boundary
C20_HoldsOffByteBoundary ==
    (PpsWithoutExtension /\ Len(PpsBaseBits(unit.src)) % 8 # 0) =>
        /\ unit.err = "none"
        /\ {"transform_8x8_mode_flag", "pic_scaling_matrix_present_flag",
            "second_chroma_qp_index_offset"} \subseteq unit.obj.none
        /\ unit.obj.pos = Len(PpsBaseBits(unit.src))

\* a PPS that decodes has the base fields its RBSP was written from, and
\* has the optional fields exactly when 8 bits or more follow the base fields
PpsRoundTrip ==
    (unit.cls = "PPS" /\ unit.err = "none") =>
        /\ unit.obj.pic_parameter_set_id = unit.src.pic_parameter_set_id
        /\ unit.obj.entropy_coding_mode_flag = unit.src.entropy_coding_mode_flag
        /\ unit.obj.num_ref_idx_l0_active_minus1
               = unit.src.num_ref_idx_l0_active_minus1
        /\ unit.obj.weighted_pred_flag = unit.src.weighted_pred_flag
        /\ unit.obj.pic_init_qp_minus26 = unit.src.pic_init_qp_minus26
        /\ unit.obj.chroma_qp_index_offset = unit.src.chroma_qp_index_offset
        /\ unit.obj.redundant_pic_cnt_present_flag
               = unit.src.redundant_pic_cnt_present_flag
        /\ unit.obj.base_end = Len(PpsBaseBits(unit.src))
        /\ unit.obj.none = {}
               <=> 8 * Len(unit.args[1]) - unit.obj.base_end >= 8

---------------------------------------------------------------------------
(* The slice header decoder                                                 *)

\* a CodedSlice object has been constructed
SliceDecoded == unit.cls = "CodedSlice" /\ unit.err = "none"

\* the reads of the decoded slice that were assigned to self.<name>
ReadsOf(name) ==
    {i \in DOMAIN unit.obj.log : unit.obj.log[i].name = name}

RECURSIVE SumBits(_)
SumBits(log) ==
    IF log = <<>> THEN 0 ELSE log[1].bits + SumBits(Tail(log))

\* C16: for every slice decode, is_idr is true exactly when nal_unit_type
\* is 5, and idr_pic_id is read (one ue code) exactly when is_idr is true;
\* for a non-IDR slice no bits are consumed for idr_pic_id (every bit of the
\* header belongs to another field, and the field behind it,
\* pic_order_cnt_lsb, is read where it was written) and the field is None.
C16_IdrPicIdIffIdr ==
    SliceDecoded =>
        /\ unit.obj.is_idr <=> (unit.args[4] = 5)
        /\ SumBits(unit.obj.log) = unit.obj._slice_header_size_bits
        /\ unit.obj.is_idr =>
               /\ Cardinality(ReadsOf("idr_pic_id")) = 1
               /\ "idr_pic_id" \notin unit.obj.none
               /\ \A i \in ReadsOf("idr_pic_id") :
                      /\ unit.obj.log[i].val = unit.src.idr_pic_id
                      /\ unit.obj.log[i].bits = Len(EncUe(unit.src.idr_pic_id))
        /\ ~unit.obj.is_idr =>
               /\ ReadsOf("idr_pic_id") = {}
               /\ "idr_pic_id" \in unit.obj.none
        /\ \A i \in ReadsOf("pic_order_cnt_lsb") :
               unit.obj.log[i].val = unit.src.pic_order_cnt_lsb

\* the non-IDR P-slice of test_non_idr_slice_parsing: slice_type 5,
\* frame_num 1, pic_order_cnt_lsb 4, slice_qp_delta -10, decoded
C16_Witness ==
    /\ SliceDecoded
    /\ unit.args[4] = 1
    /\ ~unit.obj.is_idr
    /\ unit.obj.slice_type = 5
    /\ unit.obj.slice_type_str = "P"
    /\ unit.obj.frame_num = 1
    /\ unit.obj.slice_qp_delta = -10
    /\ "idr_pic_id" \in unit.obj.none
    /\ "pic_order_cnt_lsb" \notin unit.obj.none

\* a decoded slice header has the slice_type, frame_num and slice_qp_delta
\* it was written from
SliceRoundTrip ==
    SliceDecoded =>
        /\ unit.obj.slice_type = unit.src.slice_type
        /\ unit.obj.frame_num = unit.src.frame_num
        /\ unit.obj.slice_qp_delta = unit.src.slice_qp_delta

---------------------------------------------------------------------------
(* Termination                                                              *)

\* parse() has returned or raised
Terminated == pc \in {"done", "failed"}

\* parse() returns with every located NALU processed, or it has stopped
\* with an exception
Outcome ==
    Terminated => IF pc = "done" THEN idx > NumNalus /\ error = "none"
                                 ELSE error # "none"

\* C19: for every finite input buffer parse terminates: it either processes
\* every located NALU or stops with a fatal error; and a loop of a semantic
\* decoder (the memory-management-control loop, the ref-pic-list-modification
\* loop, the scaling-list loop) that has been entered is left.
C19_ParseTerminates ==
    /\ (pc = "parsing") ~> Terminated
    /\ []Outcome
    /\ loop.running ~> ~loop.running

\* parse() has returned from a stream of two NALUs
C19_Witness ==
    /\ pc = "done"
    /\ NumNalus = 2
    /\ idx = 3
    /\ loop = NoLoop

---------------------------------------------------------------------------
(* The slice groups of a PPS                                                *)

\* a PPS with more than one slice group has been decoded
PpsSliceGroups(type) ==
    /\ unit.cls = "PPS"
    /\ unit.err = "none"
    /\ unit.obj.num_slice_groups_minus1 > 0
    /\ unit.obj.slice_group_map_type = type

\* C21 as the spec states it: with slice_group_map_type 2 the PPS decoder
\* reads num_slice_groups_minus1 + 1 (top_left, bottom_right) pairs, as many
\* as the run lengths it reads with slice_group_map_type 0
C21_PairsAsManyAsRunLengths ==
    /\ PpsSliceGroups(0) =>
           Len(unit.obj.run_length_minus1) = unit.obj.num_slice_groups_minus1 + 1
    /\ PpsSliceGroups(2) =>
           /\ Len(unit.obj.top_left) = unit.obj.num_slice_groups_minus1 + 1
           /\ Len(unit.obj.bottom_right) = unit.obj.num_slice_groups_minus1 + 1

\* C21 amended: with slice_group_map_type 0 the PPS decoder reads
\* num_slice_groups_minus1 + 1 run lengths, with slice_group_map_type 2 it
\* reads num_slice_groups_minus1 (top_left, bottom_right) pairs, one fewer,
\* and the fields behind them are the ones the PPS was written with
C21_OnePairFewer ==
    /\ PpsSliceGroups(0) =>
           /\ unit.src.sg = "interleaved"
           /\ unit.obj.run_length_minus1 = <<4, 1, 0>>
           /\ Len(unit.obj.run_length_minus1)
                  = unit.obj.num_slice_groups_minus1 + 1
    /\ PpsSliceGroups(2) =>
           /\ unit.src.sg = "foreground"
           /\ unit.obj.top_left = <<0, 2>>
           /\ unit.obj.bottom_right = <<5, 7>>
           /\ Len(unit.obj.top_left) = unit.obj.num_slice_groups_minus1
           /\ Len(unit.obj.bottom_right) = unit.obj.num_slice_groups_minus1
    /\ (PpsSliceGroups(0) \/ PpsSliceGroups(2)) =>
           unit.obj.num_ref_idx_l0_active_minus1
               = unit.src.num_ref_idx_l0_active_minus1

C21_Witness ==
    /\ PpsSliceGroups(2)
    /\ unit.obj.num_slice_groups_minus1 = 2
    /\ Len(unit.obj.top_left) = 2

---------------------------------------------------------------------------
(* The reference picture lists of a slice                                   *)

\* the values of the reads of the decoded slice named by one of names, in
\* the order they were made, as <<name, value>> pairs
RECURSIVE ReadsAmong(_, _)
ReadsAmong(log, names) ==
    IF log = <<>> THEN <<>>
    ELSE (IF Head(log).name \in names
          THEN << <<Head(log).name, Head(log).val>> >> ELSE <<>>)
         \o ReadsAmong(Tail(log), names)

\* the log has the read, with the value v
Read(name, v) ==
    \E i \in DOMAIN unit.obj.log :
        unit.obj.log[i].name = name /\ unit.obj.log[i].val = v

\* num_ref_idx_<lx>_active_minus1 as the claim gives it: the override of
\* the slice when num_ref_idx_active_override_flag is 1, else the PPS's
ActiveMinus1(lx) ==
    IF Read("num_ref_idx_active_override_flag", 1)
    THEN ReadsAmong(unit.obj.log,
                    {"num_ref_idx_" \o lx \o "_active_minus1"})[1][2]
    ELSE unit.args[3]["num_ref_idx_" \o lx \o "_active_minus1"]

\* rs is a run of (idc, value) pairs, ended by an idc 3 without a value or
\* by the bound of `most` pairs
PairsUntil3(rs, lx, most) ==
    LET idc == "modification_of_pic_nums_idc_" \o lx
        value == "modification_value_" \o lx
        pairs == Len(rs) \div 2
    IN  /\ \A k \in 1..pairs :
               /\ rs[2 * k - 1][1] = idc
               /\ rs[2 * k - 1][2] # 3
               /\ rs[2 * k][1] = value
        /\ pairs <= most
        /\ \/ Len(rs) = 2 * pairs + 1 /\ rs[Len(rs)] = <<idc, 3>>
           \/ Len(rs) = 2 * pairs /\ pairs = most

\* the modification reads of list lx of the decoded slice
ListReads(lx) ==
    ReadsAmong(unit.obj.log, {"modification_of_pic_nums_idc_" \o lx,
                              "modification_value_" \o lx})

\* the claim for list lx, which is read when `read` holds
ListModification(lx, read) ==
    LET flag == "ref_pic_list_modification_flag_" \o lx
    IN  /\ Len(ReadsAmong(unit.obj.log, {flag})) = IF read THEN 1 ELSE 0
        /\ IF read /\ Read(flag, 1)
           THEN PairsUntil3(ListReads(lx), lx, ActiveMinus1(lx) + 1)
           ELSE ListReads(lx) = <<>>

\* C22: a slice that is not I or SI reads ref_pic_list_modification_flag_l0
\* and, when it is 1, (idc, value) ue pairs until it has read an idc 3 (no
\* value follows it), at most num_ref_idx_l0_active_minus1 + 1 pairs, where
\* the count is the slice's override when num_ref_idx_active_override_flag
\* is 1 and the PPS's otherwise; a B slice does the same for list 1
C22_RefPicListModification ==
    SliceDecoded =>
        /\ ListModification("l0", unit.obj.slice_type % 5
                                      \notin {I_SLICE, SI_SLICE})
        /\ ListModification("l1", unit.obj.slice_type % 5 = B_SLICE)

\* a P slice that overrides the PPS's count 1 with 2 and reads three pairs
C22_Witness ==
    /\ SliceDecoded
    /\ unit.obj.slice_type = P_SLICE
    /\ unit.args[3].num_ref_idx_l0_active_minus1 = 1
    /\ Read("num_ref_idx_active_override_flag", 1)
    /\ ActiveMinus1("l0") = 2
    /\ Len(ListReads("l0")) = 6

\* a slice that stops at the idc 3, before the bound
C22_WitnessStop ==
    /\ SliceDecoded
    /\ unit.obj.slice_type = B_SLICE
    /\ ListReads("l0") = << <<"modification_of_pic_nums_idc_l0", 0>>,
                            <<"modification_value_l0", 4>>,
                            <<"modification_of_pic_nums_idc_l0", 3>> >>
    /\ ListReads("l1") # <<>>

---------------------------------------------------------------------------
(* The reference picture marking of a slice                                 *)

MmcoNames ==
    {"memory_management_control_operation", "difference_of_pic_nums_minus1",
     "long_term_pic_num", "long_term_frame_idx",
     "max_long_term_frame_idx_plus1"}

\* the operands the claim gives a memory management control operation
OperandsOf(op) ==
    CASE op = 1 -> <<"difference_of_pic_nums_minus1">>
      [] op = 2 -> <<"long_term_pic_num">>
      [] op = 3 -> <<"difference_of_pic_nums_minus1", "long_term_frame_idx">>
      [] op = 4 -> <<"max_long_term_frame_idx_plus1">>
      [] op = 6 -> <<"long_term_frame_idx">>
      [] OTHER -> <<>>

\* rs is a run of operations, each followed by its operands and by nothing
\* else, that ends with the first operation 0
RECURSIVE OperationsUntil0(_)
OperationsUntil0(rs) ==
    /\ rs # <<>>
    /\ rs[1][1] = "memory_management_control_operation"
    /\ IF rs[1][2] = 0 THEN Len(rs) = 1
       ELSE LET ops == OperandsOf(rs[1][2])
            IN  /\ Len(rs) > Len(ops)
                /\ \A k \in DOMAIN ops : rs[1 + k][1] = ops[k]
                /\ OperationsUntil0(SubSeq(rs, 2 + Len(ops), Len(rs)))

\* the marking reads of the decoded slice
MarkingReads == ReadsAmong(unit.obj.log, MmcoNames)

\* C23: a non-IDR slice with adaptive_ref_pic_marking_mode_flag 1 reads
\* memory management control operations until it has read operation 0,
\* with one ue operand for the operations 1, 2, 4 and 6, two for 3 and none
\* for 5; with the flag 0 it reads none
C23_MemoryManagementOperations ==
    SliceDecoded /\ unit.args[4] # 5 =>
        /\ Len(ReadsAmong(unit.obj.log,
                          {"adaptive_ref_pic_marking_mode_flag"})) = 1
        /\ IF Read("adaptive_ref_pic_marking_mode_flag", 1)
           THEN OperationsUntil0(MarkingReads)
           ELSE MarkingReads = <<>>

\* a slice that read the operations 1, 3 and 0 with their three operands
C23_Witness ==
    /\ SliceDecoded
    /\ unit.args[4] = 1
    /\ unit.src.mmco = <<1, 3, 0>>
    /\ Len(MarkingReads) = 6
    /\ unit.obj.slice_qp_delta = -10

\* a slice that read operation 5, which has no operand, then 0
C23_WitnessNoOperand ==
    /\ SliceDecoded
    /\ Read("memory_management_control_operation", 5)
    /\ Len(MarkingReads) = 2

---------------------------------------------------------------------------
(* The scaling lists                                                        *)

\* parse_scaling_list has returned
ScalingReturned ==
    loop.kind = "scaling" /\ ~loop.running /\ loop.r.err = "none"

\* next_scale after the round at index i, as the claim gives it: a delta is
\* read in every round until next_scale is 0, so round i reads delta i + 1
ClaimedNext(i, last_scale, next_scale) ==
    IF next_scale # 0 THEN (last_scale + loop.src[i + 1] + 256) % 256 ELSE 0

\* the round at index i as the claim gives it, nxt being ClaimedNext
ClaimedRound(i, nxt) ==
    /\ loop'.r.pos = loop.r.pos + IF loop.st.next_scale # 0
                                  THEN Len(EncSe(loop.src[i + 1])) ELSE 0
    /\ loop'.st.next_scale = nxt
    /\ IF i = 0 /\ nxt = 0
       THEN /\ loop'.st.use_default_scaling_matrix_flag = 1
            /\ loop'.st.scaling_list = <<>>
            /\ ~loop'.running
       ELSE /\ loop'.st.use_default_scaling_matrix_flag = 0
            /\ loop'.st.last_scale = (IF nxt = 0 THEN loop.st.last_scale
                                      ELSE nxt)
            /\ loop'.st.scaling_list =
                   Append(loop.st.scaling_list, loop'.st.last_scale)
            /\ loop'.running

\* what parse_scaling_list returns, as the claim gives it
ClaimedReturn ==
    \/ /\ loop.st.use_default_scaling_matrix_flag = 1
       /\ loop.st.scaling_list = <<>>
    \/ /\ loop.st.use_default_scaling_matrix_flag = 0
       /\ Len(loop.st.scaling_list) = loop.n
       /\ \A k \in 1..loop.n : loop.st.scaling_list[k] \in 1..255

\* C24: parse_scaling_list with size 16 or 64 starts from last_scale =
\* next_scale = 8, reads a delta only while next_scale is not 0 and sets
\* next_scale = (last_scale + delta + 256) mod 256; with next_scale 0 at the
\* first entry it returns the use-default flag and an empty list, otherwise
\* exactly N entries, each last_scale when next_scale is 0 and next_scale
\* otherwise, so every entry is in 1..255 and no delta is read once
\* next_scale is 0
C24_ScalingList ==
    /\ [](loop.kind = "scaling" /\ loop.st.i = 0 /\ loop.running =>
             loop.st.last_scale = 8 /\ loop.st.next_scale = 8)
    /\ [](ScalingReturned => ClaimedReturn)
    /\ [][loop.kind = "scaling" /\ loop.running =>
             IF loop.st.i < loop.n
             THEN ClaimedRound(loop.st.i,
                               ClaimedNext(loop.st.i, loop.st.last_scale,
                                           loop.st.next_scale))
             ELSE ~loop'.running /\ loop'.st = loop.st /\ loop'.r = loop.r]_vars

\* a list of 64 entries whose next_scale became 0 on the way, after a
\* wrap-around of the sum past 255
C24_Witness ==
    /\ ScalingReturned
    /\ loop.n = 64
    /\ Len(loop.st.scaling_list) = 64
    /\ loop.st.next_scale = 0
    /\ \E k \in 2..64 : loop.st.scaling_list[k] < loop.st.scaling_list[k - 1]
    /\ loop.r.pos + 64 < 8 * Len(loop.r.b)

\* a list that falls back to the default matrix at its first entry
C24_WitnessDefault ==
    /\ ScalingReturned
    /\ loop.st.use_default_scaling_matrix_flag = 1
    /\ loop.src[1] \in {-8, -264}

---------------------------------------------------------------------------
(* The width of slice_group_change_cycle                                    *)

\* Ceil(Log2(a / b + 1)) with the exact quotient a / b: the least k with
\* 2^k >= a / b + 1, that is b * 2^k >= a + b
ExactWidth(a, b) == CHOOSE k \in 0..32 :
                        /\ b * Pow2(k) >= a + b
                        /\ \A j \in 0..(k - 1) : b * Pow2(j) < a + b

\* the width the claim gives slice_group_change_cycle for the SPS and the
\* PPS of the decoded slice
ClaimedCycleWidth ==
    ExactWidth((unit.args[2].pic_width_in_mbs_minus_1 + 1)
               * (unit.args[2].pic_height_in_map_units_minus_1 + 1),
               unit.args[3].slice_group_change_rate_minus1 + 1)

\* the PPS of the decoded slice has slice groups of map type 3, 4 or 5
ChangingSliceGroups ==
    /\ unit.args[3].num_slice_groups_minus1 > 0
    /\ unit.args[3].slice_group_map_type \in {3, 4, 5}

\* the widths of the slice_group_change_cycle reads of the decoded slice
CycleWidths ==
    {unit.obj.log[i].bits : i \in ReadsOf("slice_group_change_cycle")}

\* C25: with PPS num_slice_groups_minus1 > 0 and slice_group_map_type 3, 4
\* or 5, slice_group_change_cycle is read with
\* ceil(log2(PicSizeInMapUnits / (slice_group_change_rate_minus1 + 1) + 1))
\* bits, PicSizeInMapUnits being (pic_width_in_mbs_minus_1 + 1) *
\* (pic_height_in_map_units_minus_1 + 1) and the division exact; in every
\* other case the field is not read
C25_ChangeCycleWidth ==
    SliceDecoded =>
        IF ChangingSliceGroups
        THEN CycleWidths = {ClaimedCycleWidth}
        ELSE CycleWidths = {}

\* the statement holds for an SPS with frame_mbs_only_flag 1 when the
\* change rate divides the picture size
C25_HoldsForFramesAndExactRates ==
    /\ SliceDecoded
    /\ unit.args[2].frame_mbs_only_flag = 1
    /\ ~ChangingSliceGroups
       \/ ((unit.args[2].pic_width_in_mbs_minus_1 + 1)
            * (unit.args[2].pic_height_in_map_units_minus_1 + 1))
           % (unit.args[3].slice_group_change_rate_minus1 + 1) = 0
    => C25_ChangeCycleWidth

\* the field SPS doubles the size: 10 bits are read where the claim gives 9
C25_FieldSpsReadsWider ==
    /\ SliceDecoded /\ ChangingSliceGroups
    /\ unit.args[2].frame_mbs_only_flag = 0
    /\ unit.args[3].slice_group_change_rate_minus1 = 0
    => CycleWidths = {10} /\ ClaimedCycleWidth = 9

\* the truncated quotient 300 // 19 = 15: 4 bits are read where the claim
\* gives 5
C25_TruncatedRateReadsNarrower ==
    /\ SliceDecoded /\ ChangingSliceGroups
    /\ unit.args[2].frame_mbs_only_flag = 1
    /\ unit.args[3].slice_group_change_rate_minus1 = 18
    => CycleWidths = {4} /\ ClaimedCycleWidth = 5

\* slices decoded with the two divergent widths
C25_WitnessField ==
    /\ SliceDecoded /\ ChangingSliceGroups
    /\ unit.args[2].frame_mbs_only_flag = 0
    /\ CycleWidths = {10}

C25_WitnessRate ==
    /\ SliceDecoded /\ ChangingSliceGroups
    /\ unit.args[2].frame_mbs_only_flag = 1
    /\ unit.args[3].slice_group_change_rate_minus1 = 18
    /\ CycleWidths = {4}

---------------------------------------------------------------------------
(* The sizes of a slice's header and payload                                *)

\* n bits rounded up to whole bytes
RoundedUp(n) == CHOOSE k \in 0..n : 8 * k >= n /\ 8 * (k - 1) < n

\* the header length is the distance the cursor moved (the widths of the
\* reads made add up to it) and the header size is that length rounded up
HeaderSizeRoundedUp ==
    /\ unit.obj._slice_header_size_bits = SumBits(unit.obj.log)
    /\ get_slice_header_size(unit.obj)
           = RoundedUp(unit.obj._slice_header_size_bits)

\* C26: for every decoded slice the recorded header bit length is the end
\* cursor minus the start cursor of the header decode, get_slice_header_size
\* returns it rounded up to whole bytes, and get_slice_payload_size returns
\* the remaining bits (RBSP bits minus header bits) rounded up to whole bytes
C26_SizesRoundedUp ==
    SliceDecoded =>
        /\ HeaderSizeRoundedUp
        /\ get_slice_payload_size(unit.obj)
               = RoundedUp(unit.obj.len - unit.obj._slice_header_size_bits)

\* the header part of the statement holds, and the payload size is the
\* remaining bits rounded down
C26_PayloadRoundedDown ==
    SliceDecoded =>
        /\ HeaderSizeRoundedUp
        /\ 8 * get_slice_payload_size(unit.obj)
               <= unit.obj.len - unit.obj._slice_header_size_bits
        /\ 8 * get_slice_payload_size(unit.obj) + 8
               > unit.obj.len - unit.obj._slice_header_size_bits

\* a slice whose header does not end on a byte boundary
C26_Witness ==
    /\ SliceDecoded
    /\ unit.obj._slice_header_size_bits % 8 # 0
    /\ get_slice_payload_size(unit.obj)
           < RoundedUp(unit.obj.len - unit.obj._slice_header_size_bits)

\* a slice whose header ends on a byte boundary: both roundings agree
C26_WitnessAligned ==
    /\ SliceDecoded
    /\ unit.obj._slice_header_size_bits % 8 = 0
    /\ unit.obj._slice_header_size_bits > 0

---------------------------------------------------------------------------
(* The profile-dependent fields of an SPS                                   *)

SpsDecoded == unit.cls = "SPS" /\ unit.err = "none"

\* the profiles the claim lists
ClaimedProfiles == {100, 110, 122, 244, 44, 83, 86, 118, 128, 138, 139, 134, 135}

\* the fields the claim gives those profiles
ClaimedProfileFields ==
    {"chroma_format_idc", "bit_depth_luma_minus8", "bit_depth_chroma_minus8",
     "qpprime_y_zero_transform_bypass_flag", "seq_scaling_matrix_present_flag"}

\* how often the decoded object read the field
TimesRead(name) == Cardinality(ReadsOf(name))

\* the field b was read right behind the field a
ReadBehind(a, b) ==
    \E i \in DOMAIN unit.obj.log :
        /\ i + 1 \in DOMAIN unit.obj.log
        /\ unit.obj.log[i].name = a
        /\ unit.obj.log[i + 1].name = b

\* C27: the SPS decoder reads chroma_format_idc, bit_depth_luma_minus8,
\* bit_depth_chroma_minus8, qpprime_y_zero_transform_bypass_flag and
\* seq_scaling_matrix_present_flag exactly when profile_idc is one of 100,
\* 110, 122, 244, 44, 83, 86, 118, 128, 138, 139, 134, 135, reads
\* separate_colour_plane_flag exactly when that block is read and
\* chroma_format_idc is 3, and for every other profile_idc reads
\* log2_max_frame_num_minus4 right behind seq_parameter_set_id
C27_ProfileFields ==
    SpsDecoded =>
        /\ \A n \in ClaimedProfileFields :
               TimesRead(n) = IF unit.obj.profile_idc \in ClaimedProfiles
                              THEN 1 ELSE 0
        /\ TimesRead("separate_colour_plane_flag")
               = IF /\ unit.obj.profile_idc \in ClaimedProfiles
                    /\ Read("chroma_format_idc", 3)
                 THEN 1 ELSE 0
        /\ unit.obj.profile_idc \notin ClaimedProfiles =>
               ReadBehind("seq_parameter_set_id", "log2_max_frame_num_minus4")

\* an SPS of profile 44 with chroma_format_idc 3: the block and
\* separate_colour_plane_flag are read, and the fields behind them are
\* decoded as written
C27_Witness ==
    /\ SpsDecoded
    /\ unit.obj.profile_idc = 44
    /\ unit.obj.chroma_format_idc = 3
    /\ TimesRead("separate_colour_plane_flag") = 1
    /\ unit.obj.pic_width_in_mbs_minus_1 = 19
    /\ unit.obj.pic_height_in_map_units_minus_1 = 14

\* an SPS of the Main profile: no field of the block is read
C27_WitnessMain ==
    /\ SpsDecoded
    /\ unit.obj.profile_idc = 77
    /\ "chroma_format_idc" \notin DOMAIN unit.obj
    /\ unit.obj.pic_order_cnt_type = 1
    /\ unit.obj.offset_for_ref_frame = <<1, -3>>
    /\ unit.obj.pic_width_in_mbs_minus_1 = 19

\* the SPS of test.py, with the values test_sps_parsing expects
C27_WitnessTest ==
    /\ SpsDecoded
    /\ unit.args[1] = TestSpsRbsp
    /\ unit.obj.profile_idc = 100
    /\ unit.obj.level_idc = 13
    /\ unit.obj.seq_parameter_set_id = 0
    /\ unit.obj.chroma_format_idc = 1
    /\ unit.obj.log2_max_frame_num_minus4 = 0
    /\ unit.obj.pic_order_cnt_type = 0
    /\ unit.obj.log2_max_pic_order_cnt_lsb_minus4 = 2
    /\ unit.obj.num_ref_frames = 4
    /\ unit.obj.pic_width_in_mbs_minus_1 = 19
    /\ unit.obj.pic_height_in_map_units_minus_1 = 14
    /\ unit.obj.frame_mbs_only_flag = 1
    /\ unit.obj.direct_8x8_inference_flag = 1
    /\ unit.obj.frame_cropping_flag = 0
    /\ unit.obj.vui_parameters_present_flag = 1

\* SPSs written with every VUI part decode as written
C27_WitnessVui ==
    /\ SpsDecoded
    /\ unit.src.vui = "hrd"
    /\ unit.obj.bit_rate_value_minus1 = <<1>>
    /\ unit.obj.cbr_flag = <<1>>
    /\ unit.obj.low_delay_hrd_flag = 1
    /\ unit.obj.time_offset_length = 24
    /\ unit.obj.bitstream_restriction_flag = 0

---------------------------------------------------------------------------
(* The prediction weight table under an SPS without chroma_format_idc       *)

\* a slice header with a pred_weight_table was handed to the decoder: a P
\* or SP slice with weighted_pred_flag 1, or a B slice with
\* weighted_bipred_idc 1
WeightTableWritten ==
    /\ unit.cls = "CodedSlice"
    /\ \/ /\ unit.src.slice_type % 5 \in {P_SLICE, SP_SLICE}
          /\ unit.args[3].weighted_pred_flag = 1
       \/ /\ unit.src.slice_type % 5 = B_SLICE
          /\ unit.args[3].weighted_bipred_idc = 1

\* the SPS handed to the decoder has a profile outside the allow-list, and
\* so no chroma_format_idc
SpsWithoutChroma ==
    /\ unit.args[2].profile_idc \notin ClaimedProfiles
    /\ "chroma_format_idc" \notin DOMAIN unit.args[2]

\* C28: decoding a slice header with a prediction weight table completes
\* without error when the active SPS has a profile_idc outside the
\* allow-list (Main, 77), for which the SPS has no chroma_format_idc
C28_WeightTableWithoutChroma ==
    WeightTableWritten /\ SpsWithoutChroma => unit.err = "none"

\* every such decode raises AttributeError
C28_RaisesAttributeError ==
    WeightTableWritten /\ SpsWithoutChroma => unit.err = "AttributeError"

\* the Main profile SPS, as decoded, with a weighted P slice
C28_WitnessMain ==
    /\ WeightTableWritten /\ SpsWithoutChroma
    /\ unit.args[2].profile_idc = 77
    /\ unit.args[2].pic_width_in_mbs_minus_1 = 19
    /\ unit.err = "AttributeError"

\* without a weight table the same SPS decodes the slice
C28_WitnessNoTable ==
    /\ SliceDecoded /\ SpsWithoutChroma
    /\ unit.args[2].profile_idc = 77
    /\ unit.obj.slice_type % 5 = P_SLICE
    /\ unit.args[3].weighted_pred_flag = 0

---------------------------------------------------------------------------
(* A slice's decode and the nal_ref_idc of its NAL unit                     *)

\* what the slice NAL unit written with another nal_ref_idc decodes to
DecodeWith(nal_ref_idc) ==
    CHOOSE y \in {new(c.cls, c.args) :
                    c \in {slice_of_nalu(
                               _decode_nalu(NaluOf(unit.src.slice, nal_ref_idc)),
                               unit.args[2], unit.args[3])}} : TRUE

\* the decoded reference picture marking block was read
MarkingRead ==
    IF unit.args[4] = 5
    THEN /\ TimesRead("no_output_of_prior_pics_flag") = 1
         /\ TimesRead("long_term_reference_flag") = 1
    ELSE TimesRead("adaptive_ref_pic_marking_mode_flag") = 1

\* C30: the result of decoding a slice header does not depend on the NAL
\* unit's nal_ref_idc: two slice NAL units that differ only in nal_ref_idc
\* decode to the same fields and the same header bit length, the marking
\* block (two flags for IDR, adaptive_ref_pic_marking_mode_flag for non-IDR)
\* being read for every slice, nal_ref_idc 0 included
C30_IndependentOfNalRefIdc ==
    unit.cls = "CodedSlice" =>
        /\ \A nal_ref_idc \in 0..3 :
               DecodeWith(nal_ref_idc) = [err |-> unit.err, obj |-> unit.obj]
        /\ unit.err = "none" => MarkingRead

\* a non-IDR slice of a NAL unit with nal_ref_idc 0 whose marking block,
\* with two operations, was read
C30_Witness ==
    /\ SliceDecoded
    /\ unit.src.nal_ref_idc = 0
    /\ unit.args[4] = 1
    /\ Read("adaptive_ref_pic_marking_mode_flag", 1)
    /\ Read("memory_management_control_operation", 3)
    /\ unit.obj.slice_qp_delta = -10
    /\ DecodeWith(3).obj._slice_header_size_bits
           = unit.obj._slice_header_size_bits

\* an IDR slice of a NAL unit with nal_ref_idc 0
C30_WitnessIdr ==
    /\ SliceDecoded
    /\ unit.src.nal_ref_idc = 0
    /\ unit.obj.is_idr
    /\ TimesRead("long_term_reference_flag") = 1

====
